---- MODULE Spec2Model ----
(***************************************************************************)
(* The request runtime of titanpl: the pool of pinned worker threads       *)
(* (templates/ts/server/src/runtime.rs), each owning one TitanRuntime      *)
(* (templates/js/server/src/extensions/mod.rs), and the drift              *)
(* record/replay protocol that re-executes an action on every Resume.      *)
(*                                                                         *)
(* The native bindings of the `builtin` module (drift, _finish_request,    *)
(* run_async_operation and the task that forwards a WorkerAsyncResult to   *)
(* the worker as a Resume command) are not among the source files; they    *)
(* are modelled from spec.md section 4.5 / 4.7 and marked so in the map.   *)
(***************************************************************************)
EXTENDS Integers, Sequences, FiniteSets, Bags, TLC

\* ------------------------------------------------------------------ bounds
\* num_threads of RuntimeManager::new
NumWorkers == 2
\* number of execute() calls made by the HTTP side
MaxRequests == 3
\* largest number of sequential drift() calls an action makes
MaxDrifts == 2
\* capacity of a worker's command queue (bounded(100) in the source)
QueueCap == 1

Workers == 0 .. (NumWorkers - 1)
Handles == 0 .. (MaxRequests - 1)

\* ------------------------------------------------------------- map helpers
\* HashMap::insert
Put(m, k, v) == [x \in (DOMAIN m) \cup {k} |-> IF x = k THEN v ELSE m[x]]
\* HashMap::remove
Del(m, k) == [x \in (DOMAIN m) \ {k} |-> m[x]]
EmptyMap == [x \in {} |-> 0]

\* ------------------------------------------------------------------ inputs
\* An action (a JS function) is characterised by what the runtime can see of
\* it: how many sequential drift() calls it makes before it ends, and whether
\* it ends by returning a value or by throwing an ordinary exception.
\* "absent" names an action for which no function was loaded.
ActionNames ==
    {<<k, e>> : k \in 0 .. MaxDrifts, e \in {"return", "throw"}} \cup {<<0, "absent">>}

DriftsOf(action_name) == action_name[1]
EndOf(action_name) == action_name[2]

\* the text of the exception an action throws, as a sequence of words
UserErrorMsg == <<"Uncaught", "Error:", "boom">>
\* the text of the sentinel exception thrown by the native drift binding
SuspendMsg == <<"SUSPEND">>

\* Actions whose own exception has a text that contains the word SUSPEND,
\* e.g. throw new Error("cannot SUSPEND account"), and one action that returns
SuspendTextActionNames ==
    {<<k, "throw_suspend_text">> : k \in 0 .. MaxDrifts} \cup {<<1, "return">>}

UserSuspendTextMsg == <<"Uncaught", "Error:", "cannot", "SUSPEND", "account">>

\* the text of the exception the action throws when it ends by throwing
ThrownMsg(action_name) ==
    IF EndOf(action_name) = "throw_suspend_text"
    THEN UserSuspendTextMsg ELSE UserErrorMsg

VARIABLES
    rt,                   \* worker -> TitanRuntime
    queue,                \* worker -> the commands in its bounded channel
    round_robin_counter,  \* RuntimeManager.round_robin_counter
    sends,                \* execute() calls between fetch_add and the end of send
    async_ops,            \* bag of AsyncOpRequests the executor is running
    responses,            \* reply handle -> WorkerResults sent on it
    attempts,             \* reply handle -> log of the executions of its action
    \* the shared-queue scheduler of templates/js/server/src/runtime.rs
    free_isolates,        \* the channel of the ids of the isolates that are free
    thread_pc,            \* worker thread -> where it is in its loop
    entered,              \* isolate -> the worker threads that have run code in it
    \* the static analyzer of templates/js/server/src/fast_path.rs
    source,               \* the action source file under analysis
    analysis,             \* what analyze_action_source returned for it
    registry,             \* FastPathRegistry.actions
    served,               \* the responses built by to_axum_response
    \* the route matcher of action_management.rs
    dynamic_routes,       \* AppState.dynamic_routes
    request,              \* the method and path of the request being routed
    matched,              \* what match_dynamic_route returned for it
    \* the HTTP server of main.rs
    routes_json,          \* the file ./routes.json the process starts with
    titan_json,           \* the titan.json of the one extension package
    port_free,            \* whether the listening port can be bound
    server_pc,            \* where main is: "start", "serving" or "exited"
    state_routes,         \* AppState.routes, the exact table
    extensions,           \* the extensions load_project_extensions registered
    output,               \* what the process has written to stdout and stderr
    resolved,             \* what dynamic_handler_inner resolved the request to
    \* t.read
    read_call,            \* the binding called and its path argument
    read_result,          \* what the call produced
    \* the native extension trampoline
    invocation,           \* the registry entry and the call made through it
    invoke_result,        \* what native_invoke_extension produced
    \* the HTTP side of the reply handles
    dropped,              \* the reply handles whose receiver is gone
    \* dynamic_handler_inner after execute() has returned
    worker_result,        \* the (result_json, timings) execute() returned
    http_response,        \* the axum response built from it
    \* the worker threads of the shared-queue scheduler, statement by statement
    isolate_lock,         \* isolate -> the Mutex around its TitanRuntime
    thread_local,         \* worker thread -> the command and isolate id it holds
    faults,               \* the worker threads that were made to fail
    \* RuntimeManager::execute, statement by statement
    execute_calls,        \* caller -> where its execute() call is and what it drew
    dispatch_log          \* the workers chosen, in the order of the fetch_add

\* the variables of the worker pool
rtVars == <<rt, queue, round_robin_counter, sends, async_ops, responses, attempts>>
\* the variables only the shared-queue scheduler uses
jsVars == <<free_isolates, thread_pc, entered>>
\* the variables of the static analyzer and the fast-path registry
fpVars == <<source, analysis, registry, served>>
\* the variables of the route matcher
routeVars == <<dynamic_routes, request, matched>>

\* the variables of the HTTP server
srvVars == <<routes_json, titan_json, port_free, server_pc, state_routes, extensions,
             output, resolved>>
\* the variables of t.read
readVars == <<read_call, read_result>>
\* the variables of the extension trampoline
invokeVars == <<invocation, invoke_result>>
\* the variables of the response builder
respondVars == <<worker_result, http_response>>
\* the variables of the subsystems below the extension trampoline
\* the variables of the worker threads taken statement by statement
lockVars == <<isolate_lock, thread_local, faults>>
\* the variables of the callers of execute()
dispatchVars == <<execute_calls, dispatch_log>>
lateVars == <<respondVars, lockVars, dispatchVars>>
\* the variables the worker pool, the scheduler, the analyzer and the matcher
\* do not write
restVars == <<srvVars, readVars, invokeVars, dropped, lateVars>>

vars == <<rtVars, jsVars, fpVars, routeVars, restVars>>

\* a subsystem that is not running: its variables hold nothing
JsOff == free_isolates = <<>> /\ thread_pc = <<>> /\ entered = <<>>
FastPathOff == source = <<>> /\ analysis = <<>> /\ registry = <<>> /\ served = <<>>
RouteOff == dynamic_routes = <<>> /\ request = <<>> /\ matched = <<>>
ServerOff ==
    /\ routes_json = <<>> /\ titan_json = <<>> /\ port_free = <<>>
    /\ server_pc = <<>> /\ state_routes = <<>> /\ extensions = <<>>
    /\ output = <<>> /\ resolved = <<>>
ReadOff == read_call = <<>> /\ read_result = <<>>
InvokeOff == invocation = <<>> /\ invoke_result = <<>>
\* every receiver of a reply handle is alive
NoneDropped == dropped = {}
RespondOff == worker_result = <<>> /\ http_response = <<>>
LockOff == isolate_lock = <<>> /\ thread_local = <<>> /\ faults = {}
DispatchOff == execute_calls = <<>> /\ dispatch_log = <<>>
LateOff == RespondOff /\ LockOff /\ DispatchOff
RestOff == ServerOff /\ ReadOff /\ InvokeOff /\ NoneDropped /\ LateOff

\* ---------------------------------------------------------- TitanRuntime
\* request_counter and drift_counter are u32; MaxRequests and MaxDrifts keep
\* them far below 2^32, so the increments are modelled without wrap-around.
\* init_runtime_worker: the fields of a fresh TitanRuntime
NewRuntime(id) ==
    [ id |-> id,
      pending_requests |-> EmptyMap,
      drift_counter |-> 0,
      request_counter |-> 0,
      request_timings |-> EmptyMap,
      drift_to_request |-> EmptyMap,
      completed_drifts |-> EmptyMap,
      active_requests |-> EmptyMap,
      request_start_counters |-> EmptyMap ]

\* fault injection for C10: a worker is handed the sender of its neighbour
my_tx_other(i) == (i + 1) % NumWorkers

\* the worker's own sender: "let my_tx = tx.clone()" of its own channel
my_tx(i) == i

\* ------------------------------------------------------- the async executor
\* The operation descriptor an action passes to its call-th drift() call.
OpOf(id, request_id, call) == [w |-> id, req |-> request_id, call |-> call]

\* run_async_operation: the result of an operation names the operation it is
\* the result of; err is whether the operation failed (an "error" field).
run_async_operation(op, err) == [of |-> op, error |-> err]

\* ------------------------------------------------------ the drift binding
\* native drift(op), spec.md 4.5 "Drift semantics" steps 1-4: take the next
\* drift id, record its request, then return the memoized value (hit) or
\* hand the operation to the executor and throw the sentinel (miss).
native_drift(r, request_id, op) ==
    LET drift_id == r.drift_counter + 1
        r1 == [r EXCEPT !.drift_counter = drift_id,
                        !.drift_to_request = Put(@, drift_id, request_id)]
        hit == drift_id \in DOMAIN r1.completed_drifts
    IN  [ rt |-> r1,
          drift_id |-> drift_id,
          hit |-> hit,
          value |-> IF hit THEN <<r1.completed_drifts[drift_id]>> ELSE <<>>,
          ops |-> IF hit THEN <<>>
                  ELSE <<[op |-> op, drift_id |-> drift_id,
                          request_id |-> request_id, respond_tx |-> r.id]>> ]

\* t._finish_request, spec.md 4.5 "Resume semantics" step 5: deliver the final
\* value on the request's reply handle and free the pending entry, the
\* timings and the memo entries of this request.
finish_request(r, request_id, value) ==
    IF request_id \in DOMAIN r.pending_requests
    THEN [ rt |-> [r EXCEPT
                     !.pending_requests = Del(@, request_id),
                     !.request_timings = Del(@, request_id),
                     !.completed_drifts =
                        [d \in {x \in DOMAIN @ :
                                  ~(x \in DOMAIN r.drift_to_request
                                    /\ r.drift_to_request[x] = request_id)}
                          |-> @[d]]],
           sent |-> <<[tx |-> r.pending_requests[request_id],
                       json |-> value,
                       timings |-> IF request_id \in DOMAIN r.request_timings
                                   THEN r.request_timings[request_id]
                                   ELSE <<>>]>> ]
    ELSE [rt |-> r, sent |-> <<>>]

\* action_fn.call(...): the action runs from the top. Its call-th drift() is
\* the next one to be made; ids and got are the drift ids assigned and the
\* values returned so far in this execution.
RECURSIVE action_fn_call(_, _, _, _, _, _)
action_fn_call(r, request_id, action_name, call, ids, got) ==
    IF call > DriftsOf(action_name)
    THEN IF EndOf(action_name) = "return"
         THEN LET f == finish_request(r, request_id, [ret |-> got])
              IN  [ rt |-> f.rt, returned |-> TRUE, msg |-> <<>>, ids |-> ids,
                    got |-> got, ops |-> <<>>, sent |-> f.sent ]
         ELSE [ rt |-> r, returned |-> FALSE, msg |-> ThrownMsg(action_name),
                ids |-> ids,
                got |-> got, ops |-> <<>>, sent |-> <<>> ]
    ELSE LET d == native_drift(r, request_id, OpOf(r.id, request_id, call))
         IN  IF d.hit
             THEN action_fn_call(d.rt, request_id, action_name, call + 1,
                                 Append(ids, d.drift_id), got \o d.value)
             ELSE [ rt |-> d.rt, returned |-> FALSE, msg |-> SuspendMsg,
                    ids |-> Append(ids, d.drift_id), got |-> got,
                    ops |-> d.ops, sent |-> <<>> ]

\* ----------------------------------------------- execute_action_optimized
\* actions_map.get(action_name)
ActionLoaded(action_name) == EndOf(action_name) # "absent"

\* msg.contains("SUSPEND")
ContainsSuspend(msg) == \E i \in 1 .. Len(msg) : msg[i] = "SUSPEND"

\* fault injection for C8: the pending entry is dropped and nothing is sent
SendError_silent(r, request_id, msg) ==
    [rt |-> [r EXCEPT !.pending_requests = Del(@, request_id)], sent |-> <<>>]

\* "if let Some(tx) = runtime.pending_requests.remove(&request_id)
\*      { let _ = tx.send(WorkerResult { json: {"error": ..}, timings: vec![] }) }"
SendError(r, request_id, msg) ==
    IF request_id \in DOMAIN r.pending_requests
    THEN [ rt |-> [r EXCEPT !.pending_requests = Del(@, request_id)],
           sent |-> <<[tx |-> r.pending_requests[request_id],
                       json |-> [error |-> msg],
                       timings |-> <<>>]>> ]
    ELSE [rt |-> r, sent |-> <<>>]

\* One execution of the action of request_id on runtime r. The result holds
\* the runtime afterwards, what was sent on reply handles, the operations
\* handed to the executor, and a log entry of the execution.
execute_action_optimized(r, request_id, action_name) ==
    LET tx == IF request_id \in DOMAIN r.pending_requests
              THEN r.pending_requests[request_id] ELSE -1
        start == IF request_id \in DOMAIN r.request_start_counters
                 THEN r.request_start_counters[request_id] ELSE 0
        Entry(ids, got, ops, outcome) ==
            [ tx |-> tx, w |-> r.id, req |-> request_id, start |-> start,
              action_name |-> action_name, ids |-> ids, got |-> got, ops |-> ops, outcome |-> outcome ]
    IN
    IF ActionLoaded(action_name)
    THEN LET js == action_fn_call(r, request_id, action_name, 1, <<>>, <<>>)
         IN  IF js.returned
             THEN [ rt |-> js.rt, sent |-> js.sent, ops |-> js.ops,
                    log |-> <<Entry(js.ids, js.got, js.ops, "return")>> ]
             ELSE IF ContainsSuspend(js.msg)
             THEN [ rt |-> js.rt, sent |-> <<>>, ops |-> js.ops,
                    log |-> <<Entry(js.ids, js.got, js.ops, "suspend")>> ]
             ELSE LET e == SendError(js.rt, request_id, js.msg)
                  IN  [ rt |-> e.rt, sent |-> e.sent, ops |-> js.ops,
                        log |-> <<Entry(js.ids, js.got, js.ops, "throw")>> ]
    ELSE LET e == SendError(r, request_id, <<"Action", "not", "found">>)
         IN  [ rt |-> e.rt, sent |-> e.sent, ops |-> <<>>,
               log |-> <<Entry(<<>>, <<>>, <<>>, "absent")>> ]

\* ---------------------------------------------------------------- handlers
\* fault injection for C37: a cleanup that forgets the snapshot
Cleanup_active_only(r, request_id) ==
    IF request_id \notin DOMAIN r.pending_requests
    THEN [r EXCEPT !.active_requests = Del(@, request_id)]
    ELSE r

\* "if !rt.pending_requests.contains_key(&request_id) { remove active, start }"
Cleanup(r, request_id) ==
    IF request_id \notin DOMAIN r.pending_requests
    THEN [r EXCEPT !.active_requests = Del(@, request_id),
                   !.request_start_counters = Del(@, request_id)]
    ELSE r

\* fault injection for C36: a snapshot that is not the worker's counter
StartCounter_zero(r) == 0

\* the snapshot handle_new_request stores: "let drift_count = rt.drift_counter"
StartCounter(r) == r.drift_counter

handle_new_request(task, r) ==
    LET request_id == r.request_counter + 1
        r1 == [r EXCEPT
                 !.request_counter = request_id,
                 !.pending_requests = Put(@, request_id, task.response_tx),
                 !.active_requests =
                    Put(@, request_id, [action_name |-> task.action_name]),
                 !.request_start_counters = Put(@, request_id, StartCounter(r))]
        x == execute_action_optimized(r1, request_id, task.action_name)
    IN  [x EXCEPT !.rt = Cleanup(x.rt, request_id)]

\* fault injection for C1: a replay that keeps the worker's running counter
RewindTo_keep(r, req_id) == r.drift_counter

\* the value handle_resume rewinds drift_counter to before the replay
RewindTo(r, req_id) ==
    IF req_id \in DOMAIN r.request_start_counters
    THEN r.request_start_counters[req_id] ELSE 0

\* the label of a timing entry
TimingType(result) == IF result.error THEN "drift_error" ELSE "drift"

\* handle_resume that ends the request with an error when the result of the
\* operation is error-shaped, instead of replaying it
handle_resume_error_ends(drift_id, result, r) ==
    LET req_id == IF drift_id \in DOMAIN r.drift_to_request
                  THEN r.drift_to_request[drift_id] ELSE 0
        r1 == [r EXCEPT
                 !.request_timings =
                    Put(@, req_id,
                        Append(IF req_id \in DOMAIN @ THEN @[req_id] ELSE <<>>,
                               TimingType(result))),
                 !.completed_drifts = Put(@, drift_id, result)]
        e == SendError(r1, req_id, <<"drift", "failed">>)
        x == IF req_id \in DOMAIN r1.active_requests
             THEN IF result.error
                  THEN [rt |-> e.rt, sent |-> e.sent, ops |-> <<>>, log |-> <<>>]
                  ELSE execute_action_optimized(
                           [r1 EXCEPT !.drift_counter = RewindTo(r1, req_id)],
                           req_id, r1.active_requests[req_id].action_name)
             ELSE [rt |-> r1, sent |-> <<>>, ops |-> <<>>, log |-> <<>>]
    IN  IF req_id # 0 THEN [x EXCEPT !.rt = Cleanup(x.rt, req_id)] ELSE x

\* fault injection for C40: handle_resume that rewinds drift_counter before
\* it looks for the request
handle_resume_rewinds_first(drift_id, result, r) ==
    LET req_id == IF drift_id \in DOMAIN r.drift_to_request
                  THEN r.drift_to_request[drift_id] ELSE 0
        r1 == [r EXCEPT
                 !.request_timings =
                    Put(@, req_id,
                        Append(IF req_id \in DOMAIN @ THEN @[req_id] ELSE <<>>,
                               TimingType(result))),
                 !.completed_drifts = Put(@, drift_id, result),
                 !.drift_counter = RewindTo(r, req_id)]
        x == IF req_id \in DOMAIN r1.active_requests
             THEN execute_action_optimized(
                      r1, req_id, r1.active_requests[req_id].action_name)
             ELSE [rt |-> r1, sent |-> <<>>, ops |-> <<>>, log |-> <<>>]
    IN  IF req_id # 0 THEN [x EXCEPT !.rt = Cleanup(x.rt, req_id)] ELSE x

handle_resume(drift_id, result, r) ==
    LET req_id == IF drift_id \in DOMAIN r.drift_to_request
                  THEN r.drift_to_request[drift_id] ELSE 0
        r1 == [r EXCEPT
                 !.request_timings =
                    Put(@, req_id,
                        Append(IF req_id \in DOMAIN @ THEN @[req_id] ELSE <<>>,
                               TimingType(result))),
                 !.completed_drifts = Put(@, drift_id, result)]
        x == IF req_id \in DOMAIN r1.active_requests
             THEN execute_action_optimized(
                      [r1 EXCEPT !.drift_counter = RewindTo(r1, req_id)],
                      req_id, r1.active_requests[req_id].action_name)
             ELSE [rt |-> r1, sent |-> <<>>, ops |-> <<>>, log |-> <<>>]
    IN  IF req_id # 0 THEN [x EXCEPT !.rt = Cleanup(x.rt, req_id)] ELSE x

\* ----------------------------------------------------------------- actions
Init ==
    /\ rt = [w \in Workers |-> NewRuntime(w)]
    /\ queue = [w \in Workers |-> <<>>]
    /\ round_robin_counter = 0
    /\ sends = {}
    /\ async_ops = EmptyBag
    /\ responses = [h \in Handles |-> <<>>]
    /\ attempts = [h \in Handles |-> <<>>]
    /\ JsOff /\ FastPathOff /\ RouteOff /\ RestOff

\* the worker a dispatch is sent to: "fetch_add(1) % request_txs.len()"
PickWorker(counter) == counter % NumWorkers

\* RuntimeManager::execute up to the send: a oneshot channel is made (its
\* sender is named by the ticket drawn from the counter), the task is built
\* and the worker is chosen.
ExecuteCall(action_name) ==
    /\ round_robin_counter < MaxRequests
    /\ round_robin_counter' = round_robin_counter + 1
    /\ sends' = sends \cup
                  {[ idx |-> PickWorker(round_robin_counter),
                     task |-> [ action_name |-> action_name,
                                response_tx |-> round_robin_counter ] ]}
    /\ UNCHANGED <<rt, queue, async_ops, responses, attempts>>
    /\ UNCHANGED <<jsVars, fpVars, routeVars, restVars>>

\* "self.request_txs[idx].send(WorkerCommand::Request(task))": a blocking send
\* into the bounded channel of the chosen worker.
ExecuteSend(s) ==
    /\ s \in sends
    /\ Len(queue[s.idx]) < QueueCap
    /\ queue' = [queue EXCEPT ![s.idx] =
                    Append(@, [type |-> "Request", task |-> s.task])]
    /\ sends' = sends \ {s}
    /\ UNCHANGED <<rt, round_robin_counter, async_ops, responses, attempts>>
    /\ UNCHANGED <<jsVars, fpVars, routeVars, restVars>>

\* what one handled command leaves behind: the runtime of worker w, the
\* results sent on reply handles, the operations given to the executor. A
\* send on a handle whose receiver is gone fails, and "let _ =" discards the
\* failure.
Deliver(w, x) ==
    /\ rt' = [rt EXCEPT ![w] = x.rt]
    /\ responses' = [h \in Handles |->
                       IF h \in dropped THEN responses[h]
                       ELSE responses[h] \o SelectSeq(x.sent, LAMBDA m : m.tx = h)]
    /\ attempts' = [h \in Handles |->
                      attempts[h] \o SelectSeq(x.log, LAMBDA e : e.tx = h)]
    /\ async_ops' = IF x.ops = <<>> THEN async_ops
                    ELSE async_ops (+) SetToBag({x.ops[1]})

\* worker loop, "WorkerCommand::Request(task) => handle_new_request(task, &mut rt)"
WorkerRequest(w) ==
    /\ queue[w] # <<>>
    /\ Head(queue[w]).type = "Request"
    /\ queue' = [queue EXCEPT ![w] = Tail(@)]
    /\ Deliver(w, handle_new_request(Head(queue[w]).task, rt[w]))
    /\ UNCHANGED <<round_robin_counter, sends, jsVars, fpVars, routeVars, restVars>>

\* worker loop, "WorkerCommand::Resume { drift_id, result } => handle_resume(..)"
WorkerResume(w) ==
    /\ queue[w] # <<>>
    /\ Head(queue[w]).type = "Resume"
    /\ queue' = [queue EXCEPT ![w] = Tail(@)]
    /\ Deliver(w, handle_resume(Head(queue[w]).drift_id,
                                Head(queue[w]).result, rt[w]))
    /\ UNCHANGED <<round_robin_counter, sends, jsVars, fpVars, routeVars, restVars>>

\* The executor finishes an operation: respond_tx.send(WorkerAsyncResult), which
\* reaches the worker that issued the drift as a Resume on its worker_tx.
AsyncComplete(o, err) ==
    /\ o \in BagToSet(async_ops)
    /\ Len(queue[my_tx(o.respond_tx)]) < QueueCap
    /\ queue' = [queue EXCEPT ![my_tx(o.respond_tx)] =
                    Append(@, [ type |-> "Resume", drift_id |-> o.drift_id,
                                result |-> run_async_operation(o.op, err),
                                from |-> o.respond_tx ])]
    /\ async_ops' = async_ops (-) SetToBag({o})
    /\ UNCHANGED <<rt, round_robin_counter, sends, responses, attempts>>
    /\ UNCHANGED <<jsVars, fpVars, routeVars, restVars>>

Next ==
    \/ \E a \in ActionNames : ExecuteCall(a)
    \/ \E s \in sends : ExecuteSend(s)
    \/ \E w \in Workers : WorkerRequest(w)
    \/ \E w \in Workers : WorkerResume(w)
    \/ \E o \in BagToSet(async_ops), err \in BOOLEAN : AsyncComplete(o, err)

Spec == Init /\ [][Next]_vars

\* ------------------------------------------------------------------ claims
Min(a, b) == IF a < b THEN a ELSE b

\* C1: in every execution attempt of a request (the first run and each
\* replay) the i-th drift() call gets the id request_start_counters[R] + i,
\* so the i-th id is the same in all attempts of the request and the ids of
\* an attempt are the contiguous range from request_start_counters[R] + 1.
C1_DriftIdsDeterministic ==
    \A h \in Handles : \A a \in 1 .. Len(attempts[h]) :
        LET e == attempts[h][a]
        IN  /\ \A i \in 1 .. Len(e.ids) : e.ids[i] = e.start + i
            /\ \A b \in 1 .. Len(attempts[h]) :
                 LET f == attempts[h][b]
                 IN  /\ f.start = e.start
                     /\ \A i \in 1 .. Min(Len(e.ids), Len(f.ids)) :
                          e.ids[i] = f.ids[i]

\* a request that started after other drifts of its worker is replayed a
\* second time and makes two drift() calls in that replay
C1_Witness ==
    \E h \in Handles :
        /\ Len(attempts[h]) >= 3
        /\ attempts[h][3].start > 0
        /\ Len(attempts[h][3].ids) = 2

\* every execution logged so far, of every request
Executions == UNION {{attempts[h][a] : a \in 1 .. Len(attempts[h])} : h \in Handles}
\* the operations handed to the executor so far
Enqueued == {e.ops[1] : e \in {x \in Executions : x.ops # <<>>}}

\* C2: a drift id of a worker names one drift: two operations a worker hands
\* to the executor under the same drift id are the same drift() call of the
\* same request (replayed), never drifts of two requests or two calls.
C2_DriftIdNamesOneDrift ==
    \A o1 \in Enqueued, o2 \in Enqueued :
        (o1.respond_tx = o2.respond_tx /\ o1.drift_id = o2.drift_id)
            => o1.op = o2.op

\* C3: per-request state is segregated: every value a drift() call of a
\* request returns is the result of an operation that a drift() call of the
\* same request on the same worker enqueued.
C3_ResultsStayWithTheirRequest ==
    \A e \in Executions : \A i \in 1 .. Len(e.got) :
        e.got[i].of.w = e.w /\ e.got[i].of.req = e.req

\* no command is queued or being sent and no operation is in flight
Quiescent ==
    /\ sends = {}
    /\ \A w \in Workers : queue[w] = <<>>
    /\ async_ops = EmptyBag

\* C4: every accepted request receives exactly one response: no reply handle
\* ever carries two, and once every command is handled and every operation
\* has returned its result, every accepted request has received its one.
C4_EveryRequestAnsweredOnce ==
    /\ \A h \in Handles : Len(responses[h]) <= 1
    /\ Quiescent =>
         \A h \in Handles : h < round_robin_counter => Len(responses[h]) = 1

\* the operations request handle h has handed to the executor, as a count
OpsEnqueuedBy(h) ==
    Cardinality({a \in 1 .. Len(attempts[h]) : attempts[h][a].ops # <<>>})

\* C5: a request whose action makes k sequential drifts and returns has
\* enqueued exactly k operations and was executed exactly k+1 times, the
\* last execution being the one that completed.
C5_KDriftsKOpsKPlusOneRuns ==
    \A h \in Handles : \A a \in 1 .. Len(attempts[h]) :
        attempts[h][a].outcome = "return" =>
            /\ a = Len(attempts[h])
            /\ a = DriftsOf(attempts[h][a].action_name) + 1
            /\ OpsEnqueuedBy(h) = DriftsOf(attempts[h][a].action_name)

\* C6: drifts of a request run in source order: the i-th drift() call of a
\* request returns the result of the operation its own i-th call enqueued,
\* and an operation is enqueued only when all earlier calls were memoized.
C6_SourceOrder ==
    \A e \in Executions :
        /\ \A i \in 1 .. Len(e.got) : e.got[i].of = OpOf(e.w, e.req, i)
        /\ e.ops # <<>> => e.ops[1].op.call = Len(e.got) + 1

\* C7: once the final value (result or error) of a request has been
\* delivered, its worker holds no pending_requests, active_requests or
\* request_start_counters entry of it and no completed_drifts entry for a
\* drift id the request issued.
C7_NoStateAfterDelivery ==
    \A e \in Executions :
        responses[e.tx] # <<>> =>
            /\ e.req \notin DOMAIN rt[e.w].pending_requests
            /\ e.req \notin DOMAIN rt[e.w].active_requests
            /\ e.req \notin DOMAIN rt[e.w].request_start_counters
            /\ \A i \in 1 .. Len(e.ids) :
                 e.ids[i] \notin DOMAIN rt[e.w].completed_drifts

\* C8: a pending_requests entry disappears only in a step that sends a
\* final value on that entry's reply handle, and an active_requests entry
\* only together with (or after) its pending entry; a request that is
\* pending - suspended on a drift - has its active_requests entry.
C8_PendingRemovedOnlyOnDelivery ==
    [][ \A w \in Workers :
          /\ \A q \in DOMAIN rt[w].pending_requests :
               q \notin DOMAIN rt'[w].pending_requests =>
                   Len(responses'[rt[w].pending_requests[q]])
                       = Len(responses[rt[w].pending_requests[q]]) + 1
          /\ \A q \in DOMAIN rt[w].active_requests :
               q \notin DOMAIN rt'[w].active_requests =>
                   q \notin DOMAIN rt'[w].pending_requests
          /\ rt'[w].request_counter # rt[w].request_counter =>
               (rt'[w].request_counter \in DOMAIN rt'[w].pending_requests
                \/ responses' # responses)
          /\ \A q \in DOMAIN rt'[w].pending_requests :
               q \in DOMAIN rt'[w].active_requests ]_vars

\* a request that was suspended on a drift and kept its entries has been
\* replayed and answered with an error, and its pending entry is gone
C8_Witness ==
    \E h \in Handles :
        /\ Len(attempts[h]) >= 2
        /\ attempts[h][1].outcome = "suspend"
        /\ attempts[h][Len(attempts[h])].outcome = "throw"
        /\ Len(responses[h]) = 1
        /\ attempts[h][1].req
              \notin DOMAIN rt[attempts[h][1].w].pending_requests

\* C9: execute never waits on a full queue while the queue of some worker
\* has room (it would try the workers (start+k) mod N before blocking).
C9_NeverBlockedWhileRoom ==
    \A s \in sends :
        Len(queue[s.idx]) >= QueueCap =>
            \A w \in Workers : Len(queue[w]) >= QueueCap

\* C10: a Resume command is in the queue of the worker whose drift() call
\* issued the drift, and the drift id it carries was assigned by that worker.
C10_ResumeGoesToIssuingWorker ==
    \A w \in Workers : \A i \in 1 .. Len(queue[w]) :
        queue[w][i].type = "Resume" =>
            /\ queue[w][i].from = w
            /\ queue[w][i].result.of.w = w
            /\ queue[w][i].drift_id \in DOMAIN rt[w].drift_to_request

\* a Resume for a drift issued on worker 1 waits in worker 1's queue while
\* worker 0 has issued drifts of its own
C10_Witness ==
    /\ queue[1] # <<>>
    /\ Head(queue[1]).type = "Resume"
    /\ rt[0].drift_counter > 0


\* ===================================================================
\* The shared-queue scheduler of templates/js/server/src/runtime.rs: worker
\* threads take commands from two shared channels and lock whichever
\* isolate the command is for.
\* ------------------------------------------------------------------ bounds
\* num_threads of the js RuntimeManager::new
JsThreads == 2
\* capacity of the request and of the resume channel (bounded(10000))
JsQueueCap == 2
\* number of execute() calls made by the HTTP side of the js server
JsMaxRequests == 2

Threads == 0 .. (JsThreads - 1)

Max(a, b) == IF a > b THEN a ELSE b

\* "let num_isolates = std::cmp::max(num_threads * 4, 16)"
num_isolates(num_threads) == Max(num_threads * 4, 16)

Isolates == 0 .. (num_isolates(JsThreads) - 1)

\* the reply handles execute() has made so far: a request is waiting in the
\* request channel, is held by a thread or has been executed
JsUsed ==
    {h \in Handles :
        \/ attempts[h] # <<>>
        \/ \E i \in 1 .. Len(queue.req) : queue.req[i].task.response_tx = h
        \/ \E t \in DOMAIN thread_local :
              /\ thread_local[t].cmd.type = "Request"
              /\ thread_local[t].cmd.task.response_tx = h}

\* RuntimeManager::new: the isolates are created, every id is sent to the
\* free channel in order, and the threads start at the top of their loop.
InitJs ==
    /\ rt = [i \in Isolates |-> NewRuntime(i)]
    /\ queue = [req |-> <<>>, res |-> <<>>]
    /\ round_robin_counter = 0
    /\ sends = {}
    /\ async_ops = EmptyBag
    /\ responses = [h \in Handles |-> <<>>]
    /\ attempts = [h \in Handles |-> <<>>]
    /\ free_isolates = [k \in 1 .. num_isolates(JsThreads) |-> k - 1]
    /\ thread_pc = [t \in Threads |-> "try_recv"]
    /\ entered = [i \in Isolates |-> {}]
    /\ FastPathOff /\ RouteOff /\ RestOff

\* RuntimeManager::execute: "self.request_tx.send(WorkerCommand::Request(task))"
JsExecute(action_name) ==
    /\ Cardinality(JsUsed) < JsMaxRequests
    /\ Len(queue.req) < JsQueueCap
    /\ queue' = [queue EXCEPT !.req =
                    Append(@, [ type |-> "Request",
                                task |-> [ action_name |-> action_name,
                                           response_tx |-> Cardinality(JsUsed) ] ])]
    /\ UNCHANGED <<rt, round_robin_counter, sends, async_ops, responses, attempts>>
    /\ UNCHANGED <<jsVars, fpVars, routeVars, restVars>>

\* thread t has locked isolate i and come back from a handler with x: what
\* the handler leaves behind, and t has run code in i if an execution was made
JsHandled(t, i, x) ==
    /\ Deliver(i, x)
    /\ entered' = [entered EXCEPT ![i] = IF x.log # <<>> THEN @ \cup {t} ELSE @]

\* js handle_resume: "let mut rt = isolates[isolate_id].lock().unwrap()" and
\* then the steps of handle_resume on that runtime
JsHandleResume(t, cmd) ==
    JsHandled(t, cmd.isolate_id,
              handle_resume(cmd.drift_id, cmd.result, rt[cmd.isolate_id]))

\* worker loop, step 1: "if let Ok(cmd) = res_rx_c.try_recv() { handle_resume; continue }"
ThreadTryRecvResume(t) ==
    /\ thread_pc[t] = "try_recv"
    /\ queue.res # <<>>
    /\ queue' = [queue EXCEPT !.res = Tail(@)]
    /\ JsHandleResume(t, Head(queue.res))
    /\ UNCHANGED <<round_robin_counter, sends, free_isolates, thread_pc>>
    /\ UNCHANGED <<fpVars, routeVars, restVars>>

\* worker loop, step 1 when try_recv finds nothing: go on to the select
ThreadTryRecvEmpty(t) ==
    /\ thread_pc[t] = "try_recv"
    /\ queue.res = <<>>
    /\ thread_pc' = [thread_pc EXCEPT ![t] = "select"]
    /\ UNCHANGED <<rtVars, free_isolates, entered, fpVars, routeVars, restVars>>

\* worker loop, select arm "recv(res_rx_c) -> cmd => handle_resume(cmd, ..)"
ThreadSelectResume(t) ==
    /\ thread_pc[t] = "select"
    /\ queue.res # <<>>
    /\ queue' = [queue EXCEPT !.res = Tail(@)]
    /\ JsHandleResume(t, Head(queue.res))
    /\ thread_pc' = [thread_pc EXCEPT ![t] = "try_recv"]
    /\ UNCHANGED <<round_robin_counter, sends, free_isolates>>
    /\ UNCHANGED <<fpVars, routeVars, restVars>>

\* worker loop, select arm "recv(req_rx_c)": take a free isolate, run js
\* handle_new_request in it and "free_tx.send(iso_id)" at its end
ThreadSelectRequest(t) ==
    /\ thread_pc[t] = "select"
    /\ queue.req # <<>>
    /\ free_isolates # <<>>
    /\ queue' = [queue EXCEPT !.req = Tail(@)]
    /\ JsHandled(t, Head(free_isolates),
                 handle_new_request(Head(queue.req).task, rt[Head(free_isolates)]))
    /\ free_isolates' = Append(Tail(free_isolates), Head(free_isolates))
    /\ thread_pc' = [thread_pc EXCEPT ![t] = "try_recv"]
    /\ UNCHANGED <<round_robin_counter, sends>>
    /\ UNCHANGED <<fpVars, routeVars, restVars>>

\* The executor finishes an operation: the result reaches the shared resume
\* channel (the worker_tx every isolate was given) as a Resume that names the
\* isolate whose drift() call issued it.
JsAsyncComplete(o, err) ==
    /\ o \in BagToSet(async_ops)
    /\ Len(queue.res) < JsQueueCap
    /\ queue' = [queue EXCEPT !.res =
                    Append(@, [ type |-> "Resume", isolate_id |-> o.respond_tx,
                                drift_id |-> o.drift_id,
                                result |-> run_async_operation(o.op, err) ])]
    /\ async_ops' = async_ops (-) SetToBag({o})
    /\ UNCHANGED <<rt, round_robin_counter, sends, responses, attempts>>
    /\ UNCHANGED <<jsVars, fpVars, routeVars, restVars>>

NextJs ==
    \/ \E a \in ActionNames : JsExecute(a)
    \/ \E t \in Threads : ThreadTryRecvResume(t)
    \/ \E t \in Threads : ThreadTryRecvEmpty(t)
    \/ \E t \in Threads : ThreadSelectResume(t)
    \/ \E t \in Threads : ThreadSelectRequest(t)
    \/ \E o \in BagToSet(async_ops), err \in BOOLEAN : JsAsyncComplete(o, err)

SpecJs == InitJs /\ [][NextJs]_vars

\* C11: each isolate is owned by one OS thread: all executions inside an
\* isolate (first runs and replays) are made by one and the same worker
\* thread; no second thread ever enters it.
C11_IsolateOwnedByOneThread ==
    \A i \in DOMAIN entered : Cardinality(entered[i]) <= 1


\* ===================================================================
\* The static analyzer of templates/js/server/src/fast_path.rs.
\*
\* An AST node is a tuple whose first element is the name of its OXC node
\* kind: <<"StringLiteral", s>>, <<"NumericLiteral", n>>,
\* <<"BooleanLiteral", b>>, <<"NullLiteral">>, <<"Identifier", name>>,
\* <<"ObjectExpression", properties>>, <<"ArrayExpression", elements>>,
\* <<"TemplateLiteral", quasis, expressions>>,
\* <<"BinaryExpression", operator, left, right>>,
\* <<"UnaryExpression", operator, argument>>,
\* <<"ParenthesizedExpression", expression>>,
\* <<"StaticMemberExpression", object, property>>,
\* <<"ComputedMemberExpression", object, expression>>,
\* <<"CallExpression", callee, arguments>>,
\* <<"AssignmentExpression", left, right>>, <<"ReturnStatement", argument>>.
\* A serde_json::Value is <<"String", s>>, <<"Number", n>>, <<"Bool", b>>,
\* <<"Null">>, <<"Array", elements>> or <<"Object", map>>.
\* An Option is <<>> (None) or <<v>> (Some(v)).
None == <<>>
Some(v) == <<v>>

\* "const MAX_EVAL_DEPTH: usize = 16"
MAX_EVAL_DEPTH == 16

\* The keys that occur in the object literals of the sources below, in the
\* order serde_json's Map (a BTreeMap) iterates them: ascending by bytes.
KeyOrder ==
    << "Content-Type", "Server", "X-Id", "headers", "id", "message", "ok", "status" >>

\* str::to_lowercase on those keys
to_lowercase(key) ==
    CASE key = "Content-Type" -> "content-type"
      [] key = "Server" -> "server"
      [] key = "X-Id" -> "x-id"
      [] OTHER -> key

\* number_to_json: the numbers of the model are integers, which are neither
\* NaN nor infinite and have no fractional part
number_to_json(v) == Some(<<"Number", v>>)

\* property_key_to_string
property_key_to_string(key) ==
    IF key[1] \in {"StaticIdentifier", "StringLiteral"} THEN Some(key[2])
    ELSE IF key[1] = "NumericLiteral" THEN Some(ToString(key[2]))
    ELSE None

\* scoping.symbol_is_mutated: the binding has a write reference besides its
\* declaration
symbol_is_mutated(symbol_id, semantic) ==
    \E n \in 1 .. Len(semantic.nodes) :
        /\ semantic.nodes[n][1] = "AssignmentExpression"
        /\ semantic.nodes[n][2] = <<"Identifier", symbol_id>>

\* "const MUTATING_METHODS"
MUTATING_METHODS ==
    { "push", "pop", "shift", "unshift", "splice", "sort", "reverse", "fill",
      "copyWithin", "set", "delete", "clear" }

\* is_identifier_for_symbol
is_identifier_for_symbol(expr, symbol_id, semantic) ==
    /\ expr[1] = "Identifier"
    /\ expr[2] \in DOMAIN semantic.declarations
    /\ expr[2] = symbol_id

\* is_assignment_target_our_symbol
is_assignment_target_our_symbol(target, symbol_id, semantic) ==
    /\ target[1] \in {"StaticMemberExpression", "ComputedMemberExpression"}
    /\ is_identifier_for_symbol(target[2], symbol_id, semantic)

\* is_object_mutated_in_ast that looks at method calls only
is_object_mutated_in_ast_calls_only(symbol_id, semantic) ==
    \E n \in 1 .. Len(semantic.nodes) :
        LET node == semantic.nodes[n]
        IN  /\ node[1] = "CallExpression"
            /\ node[2][1] = "StaticMemberExpression"
            /\ node[2][3] \in MUTATING_METHODS
            /\ is_identifier_for_symbol(node[2][2], symbol_id, semantic)

\* is_object_mutated_in_ast
is_object_mutated_in_ast(symbol_id, semantic) ==
    \E n \in 1 .. Len(semantic.nodes) :
        LET node == semantic.nodes[n]
        IN  \/ /\ node[1] = "CallExpression"
               /\ node[2][1] = "StaticMemberExpression"
               /\ node[2][3] \in MUTATING_METHODS
               /\ is_identifier_for_symbol(node[2][2], symbol_id, semantic)
            \/ /\ node[1] = "AssignmentExpression"
               /\ is_assignment_target_our_symbol(node[2], symbol_id, semantic)
            \/ /\ node[1] = "UnaryExpression"
               /\ node[2] = "delete"
               /\ node[3][1] \in {"StaticMemberExpression", "ComputedMemberExpression"}
               /\ is_identifier_for_symbol(node[3][2], symbol_id, semantic)

RECURSIVE eval_static(_, _, _)
RECURSIVE resolve_identifier(_, _, _)
RECURSIVE eval_properties(_, _, _, _, _)
RECURSIVE eval_elements(_, _, _, _, _)
RECURSIVE eval_template(_, _, _, _, _)
RECURSIVE cooked_text(_, _)

\* resolve_identifier that does not follow an initializer that is itself an
\* identifier
resolve_identifier_not_transitive(ident, semantic, depth) ==
    IF depth > MAX_EVAL_DEPTH THEN None
    ELSE IF ident \notin DOMAIN semantic.declarations THEN None
    ELSE IF symbol_is_mutated(ident, semantic) THEN None
    ELSE LET decl_node == semantic.declarations[ident]
         IN  IF decl_node[1] # "VariableDeclarator" THEN None
             ELSE IF decl_node[2] = None THEN Some(<<"Null">>)
             ELSE IF decl_node[2][1][1] \in {"ArrayExpression", "ObjectExpression"}
             THEN IF is_object_mutated_in_ast(ident, semantic) THEN None
                  ELSE eval_static(decl_node[2][1], semantic, depth + 1)
             ELSE IF decl_node[2][1][1] = "Identifier" THEN None
             ELSE eval_static(decl_node[2][1], semantic, depth + 1)

\* eval_static, ObjectExpression: properties i.. are evaluated into map
eval_properties(properties, i, map, semantic, depth) ==
    IF i > Len(properties) THEN Some(<<"Object", map>>)
    ELSE IF properties[i][1] # "ObjectProperty" THEN None
    ELSE LET key == property_key_to_string(properties[i][2])
             val == eval_static(properties[i][3], semantic, depth + 1)
         IN  IF key = None \/ val = None THEN None
             ELSE eval_properties(properties, i + 1, Put(map, key[1], val[1]),
                                  semantic, depth)

\* eval_static, ArrayExpression: elements i.. are evaluated onto vec
eval_elements(elements, i, vec, semantic, depth) ==
    IF i > Len(elements) THEN Some(<<"Array", vec>>)
    ELSE IF elements[i][1] = "SpreadElement" THEN None
    ELSE IF elements[i][1] = "Elision"
    THEN eval_elements(elements, i + 1, Append(vec, <<"Null">>), semantic, depth)
    ELSE LET val == eval_static(elements[i], semantic, depth + 1)
         IN  IF val = None THEN None
             ELSE eval_elements(elements, i + 1, Append(vec, val[1]), semantic, depth)

\* eval_static, TemplateLiteral without expressions: the cooked quasis joined
cooked_text(quasis, i) ==
    IF i > Len(quasis) THEN ""
    ELSE (IF quasis[i] = None THEN "" ELSE quasis[i][1]) \o cooked_text(quasis, i + 1)

\* eval_static, TemplateLiteral: quasi i and the interpolation after it are
\* appended to result
eval_template(tpl, i, result, semantic, depth) ==
    IF i > Len(tpl[2]) THEN Some(<<"String", result>>)
    ELSE IF tpl[2][i] = None THEN None
    ELSE IF i > Len(tpl[3])
    THEN eval_template(tpl, i + 1, result \o tpl[2][i][1], semantic, depth)
    ELSE LET val == eval_static(tpl[3][i], semantic, depth + 1)
             text == result \o tpl[2][i][1]
         IN  IF val = None THEN None
             ELSE CASE val[1][1] = "String" ->
                         eval_template(tpl, i + 1, text \o val[1][2], semantic, depth)
                    [] val[1][1] = "Number" ->
                         eval_template(tpl, i + 1, text \o ToString(val[1][2]),
                                       semantic, depth)
                    [] val[1][1] = "Bool" ->
                         eval_template(tpl, i + 1,
                                       text \o (IF val[1][2] THEN "true" ELSE "false"),
                                       semantic, depth)
                    [] val[1][1] = "Null" ->
                         eval_template(tpl, i + 1, text \o "null", semantic, depth)
                    [] OTHER -> None

eval_static(expr, semantic, depth) ==
    IF depth > MAX_EVAL_DEPTH THEN None
    ELSE CASE expr[1] = "StringLiteral" -> Some(<<"String", expr[2]>>)
           [] expr[1] = "NumericLiteral" -> number_to_json(expr[2])
           [] expr[1] = "BooleanLiteral" -> Some(<<"Bool", expr[2]>>)
           [] expr[1] = "NullLiteral" -> Some(<<"Null">>)
           [] expr[1] = "ObjectExpression" ->
                eval_properties(expr[2], 1, EmptyMap, semantic, depth)
           [] expr[1] = "ArrayExpression" ->
                eval_elements(expr[2], 1, <<>>, semantic, depth)
           [] expr[1] = "Identifier" -> resolve_identifier(expr[2], semantic, depth)
           [] expr[1] = "TemplateLiteral" ->
                IF expr[3] = <<>> THEN Some(<<"String", cooked_text(expr[2], 1)>>)
                ELSE eval_template(expr, 1, "", semantic, depth)
           [] expr[1] = "BinaryExpression" ->
                IF expr[2] # "+" THEN None
                ELSE LET left == eval_static(expr[3], semantic, depth + 1)
                         right == IF left = None THEN None
                                  ELSE eval_static(expr[4], semantic, depth + 1)
                     IN  IF left = None \/ right = None THEN None
                         ELSE CASE left[1][1] = "String" /\ right[1][1] = "String" ->
                                     Some(<<"String", left[1][2] \o right[1][2]>>)
                                [] left[1][1] = "String" /\ right[1][1] = "Number" ->
                                     Some(<<"String", left[1][2] \o ToString(right[1][2])>>)
                                [] left[1][1] = "Number" /\ right[1][1] = "String" ->
                                     Some(<<"String", ToString(left[1][2]) \o right[1][2]>>)
                                [] left[1][1] = "Number" /\ right[1][1] = "Number" ->
                                     number_to_json(left[1][2] + right[1][2])
                                [] OTHER -> None
           [] expr[1] = "UnaryExpression" ->
                IF expr[2] # "-" THEN None
                ELSE LET val == eval_static(expr[3], semantic, depth + 1)
                     IN  IF val # None /\ val[1][1] = "Number"
                         THEN number_to_json(0 - val[1][2])
                         ELSE None
           [] expr[1] = "ParenthesizedExpression" ->
                eval_static(expr[2], semantic, depth)
           [] OTHER -> None

\* resolve_identifier; semantic.declarations maps each declared symbol to the
\* kind of its declaration node and, for a VariableDeclarator, its init
resolve_identifier(ident, semantic, depth) ==
    IF depth > MAX_EVAL_DEPTH THEN None
    ELSE IF ident \notin DOMAIN semantic.declarations THEN None
    ELSE IF symbol_is_mutated(ident, semantic) THEN None
    ELSE LET decl_node == semantic.declarations[ident]
         IN  IF decl_node[1] # "VariableDeclarator" THEN None
             ELSE IF decl_node[2] = None THEN Some(<<"Null">>)
             ELSE IF decl_node[2][1][1] \in {"ArrayExpression", "ObjectExpression"}
             THEN IF is_object_mutated_in_ast(ident, semantic) THEN None
                  ELSE eval_static(decl_node[2][1], semantic, depth + 1)
             ELSE eval_static(decl_node[2][1], semantic, depth + 1)


\* ------------------------------------------------------------ serialization
RECURSIVE to_vec(_)
RECURSIVE to_vec_elements(_, _)
RECURSIVE to_vec_members(_, _, _)

\* serde_json, a sequence: the elements from the i-th on, comma-separated
to_vec_elements(vec, i) ==
    IF i > Len(vec) THEN ""
    ELSE to_vec(vec[i]) \o (IF i < Len(vec) THEN "," ELSE "")
             \o to_vec_elements(vec, i + 1)

\* serde_json, a map: the members whose key is KeyOrder[k] or later; first is
\* whether no member has been written yet
to_vec_members(map, k, first) ==
    IF k > Len(KeyOrder) THEN ""
    ELSE IF KeyOrder[k] \notin DOMAIN map THEN to_vec_members(map, k + 1, first)
    ELSE (IF first THEN "" ELSE ",")
             \o "\"" \o KeyOrder[k] \o "\":" \o to_vec(map[KeyOrder[k]])
             \o to_vec_members(map, k + 1, FALSE)

\* serde_json::to_vec: the compact JSON text of a value (the strings of the
\* model hold no character that JSON escapes)
to_vec(value) ==
    CASE value[1] = "String" -> "\"" \o value[2] \o "\""
      [] value[1] = "Number" -> ToString(value[2])
      [] value[1] = "Bool" -> (IF value[2] THEN "true" ELSE "false")
      [] value[1] = "Null" -> "null"
      [] value[1] = "Array" -> "[" \o to_vec_elements(value[2], 1) \o "]"
      [] value[1] = "Object" -> "{" \o to_vec_members(value[2], 1, TRUE) \o "}"

\* ----------------------------------------------------------------- options
RECURSIVE string_headers(_, _)
\* "for (key, val) in h_obj { if let Some(v_str) = val.as_str() { push } }"
string_headers(h_obj, k) ==
    IF k > Len(KeyOrder) THEN <<>>
    ELSE (IF KeyOrder[k] \in DOMAIN h_obj /\ h_obj[KeyOrder[k]][1] = "String"
          THEN << <<KeyOrder[k], h_obj[KeyOrder[k]][2]>> >>
          ELSE <<>>)
             \o string_headers(h_obj, k + 1)

\* extract_response_options
extract_response_options(val) ==
    IF val[1] # "Object" THEN [status |-> 200, headers |-> <<>>]
    ELSE LET obj == val[2]
         IN  [ status |->
                 IF /\ "status" \in DOMAIN obj
                    /\ obj["status"][1] = "Number"
                    /\ obj["status"][2] >= 100
                    /\ obj["status"][2] <= 599
                 THEN obj["status"][2]
                 ELSE 200,
               headers |->
                 IF "headers" \in DOMAIN obj /\ obj["headers"][1] = "Object"
                 THEN string_headers(obj["headers"][2], 1)
                 ELSE <<>> ]

\* --------------------------------------------------------- response calls
\* detect_response_method: the callee is t.response.json / .text / .html
detect_response_method(call) ==
    IF /\ call[2][1] = "StaticMemberExpression"
       /\ call[2][3] \in {"json", "text", "html"}
       /\ call[2][2][1] = "StaticMemberExpression"
       /\ call[2][2][3] = "response"
       /\ call[2][2][2] = <<"Identifier", "t">>
    THEN Some(call[2][3])
    ELSE None

\* a call that sets *has_dynamic
Dynamic(acc) == [acc EXCEPT !.has_dynamic = TRUE]

\* analyze_response_call; acc holds responses and has_dynamic
analyze_response_call(call, method, semantic, acc) ==
    IF call[3] = <<>> THEN acc
    ELSE IF call[3][1][1] = "SpreadElement" THEN Dynamic(acc)
    ELSE LET body_value == eval_static(call[3][1], semantic, 0)
             opts_expr == IF Len(call[3]) >= 2 /\ call[3][2][1] # "SpreadElement"
                          THEN Some(call[3][2]) ELSE None
             opts_value == IF opts_expr = None THEN None
                           ELSE eval_static(opts_expr[1], semantic, 0)
             options == IF opts_expr = None THEN [status |-> 200, headers |-> <<>>]
                        ELSE extract_response_options(opts_value[1])
             Push(body, content_type) ==
                 [acc EXCEPT !.responses =
                     Append(@, [ body |-> body,
                                 content_type |-> content_type,
                                 status |-> options.status,
                                 extra_headers |-> options.headers ])]
         IN  IF body_value = None THEN Dynamic(acc)
             ELSE IF opts_expr # None /\ opts_value = None THEN Dynamic(acc)
             ELSE CASE method = "json" -> Push(to_vec(body_value[1]), "application/json")
                    [] method = "text" ->
                         IF body_value[1][1] = "String"
                         THEN Push(body_value[1][2], "text/plain")
                         ELSE Dynamic(acc)
                    [] method = "html" ->
                         IF body_value[1][1] = "String"
                         THEN Push(body_value[1][2], "text/html")
                         ELSE Dynamic(acc)
                    [] OTHER -> Dynamic(acc)

\* unique_response
unique_response(resps) ==
    IF resps = <<>> THEN None
    ELSE IF \A r \in 1 .. Len(resps) : resps[r] = resps[1]
    THEN Some(resps[1])
    ELSE None

RECURSIVE analyze_nodes(_, _, _)
\* "for node in semantic.nodes().iter()": the nodes from the n-th on
analyze_nodes(semantic, n, acc) ==
    IF n > Len(semantic.nodes) THEN acc
    ELSE LET node == semantic.nodes[n]
             method == IF node[1] = "CallExpression"
                       THEN detect_response_method(node) ELSE None
         IN  analyze_nodes(semantic, n + 1,
                 IF method = None THEN acc
                 ELSE analyze_response_call(node, method[1], semantic, acc))

\* analyze_action_source
analyze_action_source(src) ==
    IF src.panicked THEN None
    ELSE LET acc == analyze_nodes(src, 1, [responses |-> <<>>, has_dynamic |-> FALSE])
         IN  IF acc.has_dynamic \/ acc.responses = <<>> THEN None
             ELSE unique_response(acc.responses)

\* StaticResponse::to_axum_response: the status and the headers in the order
\* the builder is given them, and the body
to_axum_response(self) ==
    [ status |-> self.status,
      headers |-> << <<"content-type", self.content_type>>, <<"server", "TitanPL">> >>
                    \o SelectSeq(self.extra_headers,
                                 LAMBDA h : to_lowercase(h[1]) \notin {"content-type", "server"}),
      body |-> self.body ]


\* ------------------------------------------------------ the action sources
\* ------------------------------------------------------------------ bounds
\* longest chain of declarations "var c1 = c0; var c2 = c1; ..."
MaxChain == 18
\* largest number of t.response.* calls (or of plain returns) in one source
MaxCalls == 2

\* builders of AST nodes
Str(s) == <<"StringLiteral", s>>
Num(n) == <<"NumericLiteral", n>>
Id(name) == <<"Identifier", name>>
Prop(key, e) == <<"ObjectProperty", <<"StaticIdentifier", key>>, e>>
StrProp(key, e) == <<"ObjectProperty", <<"StringLiteral", key>>, e>>
Obj(properties) == <<"ObjectExpression", properties>>
Arr(elements) == <<"ArrayExpression", elements>>
Plus(l, r) == <<"BinaryExpression", "+", l, r>>
Member(object, property) == <<"StaticMemberExpression", object, property>>
Call(callee, arguments) == <<"CallExpression", callee, arguments>>
\* t.response.<method>(arguments)
ResponseCall(method, arguments) ==
    Call(Member(Member(Id("t"), "response"), method), arguments)
\* "var name = init;" and "var name;"
Var(init) == <<"VariableDeclarator", Some(init)>>
VarUninit == <<"VariableDeclarator", None>>

\* the name of the k-th variable of the chain
ChainName(k) == "c" \o ToString(k)

ChainNames == {ChainName(k) : k \in 0 .. MaxChain}

\* The declarations every source starts with:
\*   var msg = "Hello"; var lo = "lo"; var greeting = "Hel" + lo; var b = msg;
\*   var x; var items = [1, 2]; var obj = { message: "Hello" }; var STATUS = 201;
\*   var c0 = "Hello"; var c1 = c0; ...   and the parameter req of the action.
Declarations ==
    [ name \in {"msg", "lo", "greeting", "b", "x", "items", "obj", "STATUS", "req"}
                  \cup ChainNames |->
        CASE name = "msg" -> Var(Str("Hello"))
          [] name = "lo" -> Var(Str("lo"))
          [] name = "greeting" -> Var(Plus(Str("Hel"), Id("lo")))
          [] name = "b" -> Var(Id("msg"))
          [] name = "x" -> VarUninit
          [] name = "items" -> Var(Arr(<<Num(1), Num(2)>>))
          [] name = "obj" -> Var(Obj(<<Prop("message", Str("Hello"))>>))
          [] name = "STATUS" -> Var(Num(201))
          [] name = "req" -> <<"FormalParameter">>
          [] name = ChainName(0) -> Var(Str("Hello"))
          [] OTHER -> Var(Id(ChainName(
                 CHOOSE k \in 0 .. (MaxChain - 1) : ChainName(k + 1) = name))) ]

\* a source file: whether the parser panicked, the symbol table, and the
\* call, assignment, delete and return nodes of the AST in source order
Source(nodes) == [panicked |-> FALSE, declarations |-> Declarations, nodes |-> nodes]

\* `Hel${lo}`
HelloTemplate == <<"TemplateLiteral", <<Some("Hel"), Some("")>>, <<Id("lo")>>>>
\* req.query.msg
ReqQueryMsg == Member(Member(Id("req"), "query"), "msg")
\* Date.now()
DateNow == Call(Member(Id("Date"), "now"), <<>>)

\* payloads whose value is the string "Hello" or holds it
HelloPayloads ==
    { Str("Hello"), Id("msg"), Id("greeting"), Id("b"), HelloTemplate,
      Obj(<<Prop("message", Str("Hello"))>>), Obj(<<Prop("message", Id("msg"))>>),
      Id("obj") }

Payloads ==
    HelloPayloads \cup
    { Str("Bye"), Num(1), Id("x"), Obj(<<Prop("message", Id("x"))>>),
      Id("items"), Arr(<<Num(1), Num(2)>>), Id("req"), ReqQueryMsg, DateNow }

\* second arguments; <<>> stands for a call without one
OptionArgs ==
    { <<>>,
      <<Obj(<<>>)>>,
      <<Obj(<<Prop("status", Num(201))>>)>>,
      <<Obj(<<Prop("status", Id("STATUS"))>>)>>,
      <<Obj(<<Prop("status", Num(700))>>)>>,
      <<Obj(<<Prop("status", Num(99))>>)>>,
      <<Obj(<<Prop("status", Str("201"))>>)>>,
      <<Obj(<<Prop("headers", Obj(<<Prop("Server", Str("titanpl"))>>))>>)>>,
      <<Obj(<<Prop("headers", Obj(<<StrProp("Content-Type", Str("text/plain")),
                                    StrProp("X-Id", Str("1"))>>))>>)>>,
      <<Obj(<<Prop("headers", Obj(<<StrProp("X-Id", Num(1))>>))>>)>>,
      <<Obj(<<Prop("status", Num(404)),
              Prop("headers", Obj(<<StrProp("X-Id", Str("1"))>>))>>)>>,
      <<Obj(<<Prop("status", Member(Id("req"), "status"))>>)>>,
      <<<<"SpreadElement">>>> }

Methods == {"json", "text", "html"}

\* one call, every payload with every second argument
OneCallSources ==
    { Source(<<ResponseCall(method, <<payload>> \o opts)>>) :
        method \in Methods, payload \in Payloads, opts \in OptionArgs }

\* one call whose payload is the k-th variable of the chain
ChainSources ==
    { Source(<<ResponseCall(method, <<Id(name)>>)>>) :
        method \in {"json", "text"}, name \in ChainNames }

\* statements that write a binding or change the array or object it holds,
\* and two that do neither
Statements ==
    UNION { { <<"AssignmentExpression", Id(name), Str("Goodbye")>>,
              <<"AssignmentExpression", Member(Id(name), "key"), Str("v")>>,
              <<"AssignmentExpression",
                <<"ComputedMemberExpression", Id(name), Str("key")>>, Str("v")>>,
              <<"UnaryExpression", "delete", Member(Id(name), "message")>>,
              <<"UnaryExpression", "delete",
                <<"ComputedMemberExpression", Id(name), Str("message")>>>> }
            \cup { Call(Member(Id(name), method), <<>>) :
                     method \in MUTATING_METHODS \cup {"map", "slice"} } :
            name \in {"msg", "items", "obj"} }

\* a statement before or after one call that uses an identifier
StatementSources ==
    UNION { { Source(<<stmt, ResponseCall("json", <<payload>>)>>),
              Source(<<ResponseCall("json", <<payload>>), stmt>>) } :
            stmt \in Statements,
            payload \in { Id("msg"), Id("b"), Id("items"), Id("obj"),
                          Obj(<<Prop("message", Id("msg"))>>),
                          Arr(<<Id("items"), Id("obj")>>) } }

\* the calls of the sources that hold several
SomeCalls ==
    { ResponseCall("json", <<Str("Hello")>>),
      ResponseCall("json", <<Id("msg")>>),
      ResponseCall("json", <<Str("Bye")>>),
      ResponseCall("text", <<Str("Hello")>>),
      ResponseCall("json", <<Str("Hello"), Obj(<<Prop("status", Num(201))>>)>>),
      ResponseCall("json", <<Str("Hello"),
                             Obj(<<Prop("headers",
                                        Obj(<<Prop("Server", Str("titanpl"))>>))>>)>>),
      ResponseCall("json", <<>>),
      ResponseCall("json", <<<<"SpreadElement">>>>),
      ResponseCall("json", <<ReqQueryMsg>>),
      ResponseCall("json", <<Str("Hello"), <<"SpreadElement">>>>),
      Call(Member(Id("t"), "log"), <<Str("Hello")>>) }

\* the wrapper boilerplate of a bundle: "return __toCommonJS(json_exports);"
\* and "return to;" of __copyProps
WrapperReturns ==
    { <<"ReturnStatement", Call(Id("__toCommonJS"), <<Id("json_exports")>>)>>,
      <<"ReturnStatement", Id("to")>> }

\* plain returns of an action
PlainReturns ==
    { <<"ReturnStatement", Obj(<<Prop("message", Str("Hello"))>>)>>,
      <<"ReturnStatement", Obj(<<Prop("message", Id("msg"))>>)>>,
      <<"ReturnStatement", Str("Hello")>>,
      <<"ReturnStatement", Str("Bye")>>,
      <<"ReturnStatement", ReqQueryMsg>> }

SeqsUpTo(S, n) == UNION {[1 .. k -> S] : k \in 0 .. n}

\* up to MaxCalls calls, and up to MaxCalls calls or returns inside a wrapper
SeveralCallSources ==
    { Source(calls) : calls \in SeqsUpTo(SomeCalls, MaxCalls) }

ReturnSources ==
    { Source(rets \o <<w>>) :
        rets \in SeqsUpTo(PlainReturns \cup {ResponseCall("json", <<Str("Hello")>>)},
                          MaxCalls),
        w \in WrapperReturns }

\* a file the parser gives up on
PanickedSources ==
    { [panicked |-> TRUE, declarations |-> Declarations, nodes |-> <<>>] }

Sources ==
    OneCallSources \cup ChainSources \cup StatementSources
        \cup SeveralCallSources \cup ReturnSources \cup PanickedSources

\* ------------------------------------------------------------ the registry
\* the file stem of the action file: the name the action is registered under
ActionFile == "hello"

Pending == <<"pending">>
Returned(option) == <<"returned", option>>

\* the server before FastPathRegistry::build: the worker pool is up, the
\* action file is on disk and nothing has been analyzed
InitFastPath ==
    /\ rt = [w \in Workers |-> NewRuntime(w)]
    /\ queue = [w \in Workers |-> <<>>]
    /\ round_robin_counter = 0
    /\ sends = {}
    /\ async_ops = EmptyBag
    /\ responses = [h \in Handles |-> <<>>]
    /\ attempts = [h \in Handles |-> <<>>]
    /\ source \in Sources
    /\ analysis = Pending
    /\ registry = EmptyMap
    /\ served = <<>>
    /\ JsOff /\ RouteOff /\ RestOff

\* FastPathRegistry::build for the one action file: "if let Some(resp) =
\* analyze_action_source(&source) { actions.insert(name, resp) }"
FastPathBuild ==
    /\ analysis = Pending
    /\ analysis' = Returned(analyze_action_source(source))
    /\ registry' = IF analyze_action_source(source) = None THEN registry
                   ELSE Put(registry, ActionFile, analyze_action_source(source)[1])
    /\ UNCHANGED <<rtVars, jsVars, routeVars, restVars, source, served>>

\* FastPathRegistry::get
get(self, action_name) ==
    IF action_name \in DOMAIN self THEN Some(self[action_name]) ELSE None

\* the registry's entry of the action is turned into the HTTP response
ToAxumResponse ==
    /\ analysis # Pending
    /\ served = <<>>
    /\ get(registry, ActionFile) # None
    /\ served' = <<to_axum_response(get(registry, ActionFile)[1])>>
    /\ UNCHANGED <<rtVars, jsVars, routeVars, restVars, source, analysis, registry>>

\* dynamic_handler_inner for a request whose route names the action: once the
\* route is resolved it goes on to "state.runtime.execute(action_name, ..)"
dynamic_handler_inner(action_name) ==
    /\ analysis # Pending
    /\ ExecuteCall(action_name)

NextFastPath ==
    \/ FastPathBuild
    \/ ToAxumResponse
    \/ dynamic_handler_inner(ActionFile)

SpecFastPath == InitFastPath /\ [][NextFastPath]_vars


\* ------------------------------------------------- claims on the fast path
\* C12: a request whose action has an entry in the Fast-Path Registry is
\* answered from that entry before any isolate dispatch: no Request command
\* for such an action is ever built for a worker.
C12_NoDispatchOfRegisteredAction ==
    \A s \in sends : get(registry, s.task.action_name) = None


\* ------------------------------------------------- the action in the engine
\* What running the action in the JS engine yields. A JS value is a
\* serde_json::Value tuple, <<"Object", members>> holding its <<key, value>>
\* pairs in insertion order, or <<"Undefined">>; <<"Unknown">> stands for a
\* value that depends on the request or on run-time state.
RECURSIVE JsEval(_, _)
RECURSIVE JsProperties(_, _, _, _)
RECURSIVE JsElements(_, _, _, _)
RECURSIVE JsTemplate(_, _, _, _)

\* String(v) of a primitive, as `${v}` and "s" + v convert it
JsToString(v) ==
    CASE v[1] = "String" -> Some(v[2])
      [] v[1] = "Number" -> Some(ToString(v[2]))
      [] v[1] = "Bool" -> Some(IF v[2] THEN "true" ELSE "false")
      [] v[1] = "Null" -> Some("null")
      [] v[1] = "Undefined" -> Some("undefined")
      [] OTHER -> None

\* { key: value, ... }: a later member of the same key replaces the value
JsProperties(properties, i, members, semantic) ==
    IF i > Len(properties) THEN <<"Object", members>>
    ELSE IF properties[i][1] # "ObjectProperty"
            \/ property_key_to_string(properties[i][2]) = None
    THEN <<"Unknown">>
    ELSE LET key == property_key_to_string(properties[i][2])[1]
             val == JsEval(properties[i][3], semantic)
             at == {j \in 1 .. Len(members) : members[j][1] = key}
         IN  IF val = <<"Unknown">> THEN <<"Unknown">>
             ELSE JsProperties(properties, i + 1,
                      IF at = {} THEN Append(members, <<key, val>>)
                      ELSE [j \in 1 .. Len(members) |->
                              IF j \in at THEN <<key, val>> ELSE members[j]],
                      semantic)

JsElements(elements, i, vec, semantic) ==
    IF i > Len(elements) THEN <<"Array", vec>>
    ELSE IF elements[i][1] = "SpreadElement" THEN <<"Unknown">>
    ELSE IF elements[i][1] = "Elision"
    THEN JsElements(elements, i + 1, Append(vec, <<"Undefined">>), semantic)
    ELSE LET val == JsEval(elements[i], semantic)
         IN  IF val = <<"Unknown">> THEN <<"Unknown">>
             ELSE JsElements(elements, i + 1, Append(vec, val), semantic)

JsTemplate(tpl, i, result, semantic) ==
    IF i > Len(tpl[2]) THEN <<"String", result>>
    ELSE IF tpl[2][i] = None THEN <<"Unknown">>
    ELSE IF i > Len(tpl[3])
    THEN JsTemplate(tpl, i + 1, result \o tpl[2][i][1], semantic)
    ELSE LET text == JsToString(JsEval(tpl[3][i], semantic))
         IN  IF text = None THEN <<"Unknown">>
             ELSE JsTemplate(tpl, i + 1, result \o tpl[2][i][1] \o text[1], semantic)

JsEval(expr, semantic) ==
    CASE expr[1] = "StringLiteral" -> <<"String", expr[2]>>
      [] expr[1] = "NumericLiteral" -> <<"Number", expr[2]>>
      [] expr[1] = "BooleanLiteral" -> <<"Bool", expr[2]>>
      [] expr[1] = "NullLiteral" -> <<"Null">>
      [] expr[1] = "ObjectExpression" -> JsProperties(expr[2], 1, <<>>, semantic)
      [] expr[1] = "ArrayExpression" -> JsElements(expr[2], 1, <<>>, semantic)
      [] expr[1] = "Identifier" ->
           IF \/ expr[2] \notin DOMAIN semantic.declarations
              \/ semantic.declarations[expr[2]][1] # "VariableDeclarator"
              \/ symbol_is_mutated(expr[2], semantic)
           THEN <<"Unknown">>
           ELSE IF semantic.declarations[expr[2]][2] = None THEN <<"Undefined">>
           ELSE IF /\ semantic.declarations[expr[2]][2][1][1]
                        \in {"ArrayExpression", "ObjectExpression"}
                   /\ is_object_mutated_in_ast(expr[2], semantic)
           THEN <<"Unknown">>
           ELSE JsEval(semantic.declarations[expr[2]][2][1], semantic)
      [] expr[1] = "TemplateLiteral" -> JsTemplate(expr, 1, "", semantic)
      [] expr[1] = "BinaryExpression" ->
           LET left == JsEval(expr[3], semantic)
               right == JsEval(expr[4], semantic)
           IN  IF expr[2] # "+" THEN <<"Unknown">>
               ELSE IF left[1] = "Number" /\ right[1] = "Number"
               THEN <<"Number", left[2] + right[2]>>
               ELSE IF /\ "String" \in {left[1], right[1]}
                       /\ JsToString(left) # None /\ JsToString(right) # None
               THEN <<"String", JsToString(left)[1] \o JsToString(right)[1]>>
               ELSE <<"Unknown">>
      [] expr[1] = "UnaryExpression" ->
           LET val == JsEval(expr[3], semantic)
           IN  IF expr[2] = "-" /\ val[1] = "Number" THEN <<"Number", 0 - val[2]>>
               ELSE <<"Unknown">>
      [] expr[1] = "ParenthesizedExpression" -> JsEval(expr[2], semantic)
      [] OTHER -> <<"Unknown">>

RECURSIVE JSON_stringify(_)
RECURSIVE JSON_elements(_, _)
RECURSIVE JSON_members(_, _, _)

JSON_elements(vec, i) ==
    IF i > Len(vec) THEN ""
    ELSE (IF vec[i] = <<"Undefined">> THEN "null" ELSE JSON_stringify(vec[i]))
             \o (IF i < Len(vec) THEN "," ELSE "") \o JSON_elements(vec, i + 1)

\* the members in insertion order; a member whose value is undefined is left out
JSON_members(members, i, first) ==
    IF i > Len(members) THEN ""
    ELSE IF members[i][2] = <<"Undefined">> THEN JSON_members(members, i + 1, first)
    ELSE (IF first THEN "" ELSE ",")
             \o "\"" \o members[i][1] \o "\":" \o JSON_stringify(members[i][2])
             \o JSON_members(members, i + 1, FALSE)

\* JSON.stringify of a value that is not undefined
JSON_stringify(value) ==
    CASE value[1] = "String" -> "\"" \o value[2] \o "\""
      [] value[1] = "Number" -> ToString(value[2])
      [] value[1] = "Bool" -> (IF value[2] THEN "true" ELSE "false")
      [] value[1] = "Null" -> "null"
      [] value[1] = "Array" -> "[" \o JSON_elements(value[2], 1) \o "]"
      [] value[1] = "Object" -> "{" \o JSON_members(value[2], 1, TRUE) \o "}"

\* the member of a JS object value, None without one
JsMember(value, key) ==
    IF value[1] # "Object" THEN None
    ELSE LET at == {j \in 1 .. Len(value[2]) : value[2][j][1] = key}
         IN  IF at = {} THEN None ELSE Some(value[2][CHOOSE j \in at : TRUE][2])

\* main.rs: the status of a structured response: "Some(Value::Number(n)) => u
\* as u16 ... _ => 200" and "StatusCode::from_u16(status_u16).unwrap_or(OK)"
status_code(status) ==
    IF status = None \/ status[1][1] # "Number" THEN 200
    ELSE LET status_u16 == IF status[1][2] < 0 THEN 0 ELSE status[1][2] % 65536
         IN  IF status_u16 >= 100 /\ status_u16 <= 999 THEN status_u16 ELSE 200

\* The response the server sends when the action returns the value of this
\* t.response.<method>(payload, options) call: None where it depends on the
\* request or on run-time state.
EngineResponse(call, semantic) ==
    LET method == call[2][3]
        payload == IF call[3] = <<>> THEN <<"Undefined">>
                   ELSE IF call[3][1][1] = "SpreadElement" THEN <<"Unknown">>
                   ELSE JsEval(call[3][1], semantic)
        options == IF Len(call[3]) < 2 THEN <<"Undefined">>
                   ELSE IF call[3][2][1] = "SpreadElement" THEN <<"Unknown">>
                   ELSE JsEval(call[3][2], semantic)
    IN  [ body |->
            IF payload = <<"Unknown">> THEN None
            ELSE IF method = "json"
            THEN IF payload = <<"Undefined">> THEN None
                 ELSE Some(JSON_stringify(payload))
            ELSE IF payload[1] = "String" THEN Some(payload[2]) ELSE None,
          content_type |->
            CASE method = "json" -> "application/json"
              [] method = "text" -> "text/plain"
              [] method = "html" -> "text/html",
          status |->
            IF options = <<"Unknown">> THEN None
            ELSE Some(status_code(JsMember(options, "status"))) ]

\* the t.response.* calls of a source
ResponseCalls(src) ==
    { src.nodes[n] : n \in { k \in 1 .. Len(src.nodes) :
                               /\ src.nodes[k][1] = "CallExpression"
                               /\ detect_response_method(src.nodes[k]) # None } }

\* the body, status and content-type of a StaticResponse
Essentials(resp) ==
    [ body |-> Some(resp.body), content_type |-> resp.content_type,
      status |-> Some(resp.status) ]

\* C13: fast-path equivalence: when analyze_action_source returns a
\* StaticResponse for a source, its body bytes, status and content-type are
\* those the JS engine produces for the action whatever the request, so none
\* of them depends on the request or on run-time state.
C13_FastPathEquivalence ==
    (analysis # Pending /\ analysis[2] # None) =>
        \A call \in ResponseCalls(source) :
            EngineResponse(call, source) = Essentials(analysis[2][1])


\* ------------------------------------------------------------ claim C14
\* the payload or the options of a response call cannot be analysed: the
\* payload is missing, a spread or not static; the options are a spread or
\* not static
CallAnalysisFails(call, semantic) ==
    \/ call[3] = <<>>
    \/ call[3][1][1] = "SpreadElement"
    \/ eval_static(call[3][1], semantic, 0) = None
    \/ /\ Len(call[3]) >= 2
       /\ \/ call[3][2][1] = "SpreadElement"
          \/ eval_static(call[3][2], semantic, 0) = None

\* C14: when the analysis of any t.response.json/text/html call of the
\* source fails, analyze_action_source returns None, whatever the other
\* calls evaluate to.
C14_AnyFailedCallMakesDynamic ==
    (analysis # Pending /\ ~source.panicked) =>
        ((\E call \in ResponseCalls(source) : CallAnalysisFails(call, source))
            => analysis[2] = None)


\* ------------------------------------------------------------ claim C15
\* the responses one call evaluates to, analysed on its own
CallResponses(call, semantic) ==
    analyze_response_call(call, detect_response_method(call)[1], semantic,
                          [responses |-> <<>>, has_dynamic |-> FALSE])

\* C15: analyze_action_source returns a StaticResponse only if every
\* t.response.* call of the source evaluates to a response, and all of them
\* are structurally equal (body, content-type, status, extra headers) to the
\* one returned; two calls with different constants give None.
C15_StaticOnlyIfAllCallsEqual ==
    (analysis # Pending /\ analysis[2] # None) =>
        \A call \in ResponseCalls(source) :
            /\ ~CallResponses(call, source).has_dynamic
            /\ CallResponses(call, source).responses = <<analysis[2][1]>>


\* ------------------------------------------------------------ claim C16
\* the binding of name is reassigned after its declaration
Reassigned(name, semantic) ==
    \E n \in 1 .. Len(semantic.nodes) :
        semantic.nodes[n][1] = "AssignmentExpression" /\ semantic.nodes[n][2] = Id(name)

\* name binds an array or object literal that a statement changes: a mutating
\* method is called on it, a member is assigned, or a member is deleted
LiteralChanged(name, semantic) ==
    /\ semantic.declarations[name][1] = "VariableDeclarator"
    /\ semantic.declarations[name][2] # None
    /\ semantic.declarations[name][2][1][1] \in {"ArrayExpression", "ObjectExpression"}
    /\ \E n \in 1 .. Len(semantic.nodes) :
           LET node == semantic.nodes[n]
           IN  \/ \E method \in MUTATING_METHODS :
                      node[1] = "CallExpression" /\ node[2] = Member(Id(name), method)
               \/ /\ node[1] = "AssignmentExpression"
                  /\ node[2][1] \in {"StaticMemberExpression", "ComputedMemberExpression"}
                  /\ node[2][2] = Id(name)
               \/ /\ node[1] = "UnaryExpression"
                  /\ node[2] = "delete"
                  /\ node[3][1] \in {"StaticMemberExpression", "ComputedMemberExpression"}
                  /\ node[3][2] = Id(name)

RECURSIVE Uses(_, _, _)
\* the value of expr is computed from the binding of name, directly or
\* through the initializers of the identifiers it reads
Uses(expr, name, semantic) ==
    CASE expr[1] = "Identifier" ->
           \/ expr[2] = name
           \/ /\ expr[2] \in DOMAIN semantic.declarations
              /\ semantic.declarations[expr[2]][1] = "VariableDeclarator"
              /\ semantic.declarations[expr[2]][2] # None
              /\ Uses(semantic.declarations[expr[2]][2][1], name, semantic)
      [] expr[1] = "ObjectExpression" ->
           \E i \in 1 .. Len(expr[2]) :
               expr[2][i][1] = "ObjectProperty" /\ Uses(expr[2][i][3], name, semantic)
      [] expr[1] = "ArrayExpression" ->
           \E i \in 1 .. Len(expr[2]) : Uses(expr[2][i], name, semantic)
      [] expr[1] = "BinaryExpression" ->
           Uses(expr[3], name, semantic) \/ Uses(expr[4], name, semantic)
      [] expr[1] = "TemplateLiteral" ->
           \E i \in 1 .. Len(expr[3]) : Uses(expr[3][i], name, semantic)
      [] expr[1] \in {"StaticMemberExpression", "ComputedMemberExpression"} ->
           Uses(expr[2], name, semantic)
      [] OTHER -> FALSE

\* a response call whose payload or options use the binding of name
CallUses(call, name, semantic) ==
    \E a \in 1 .. Len(call[3]) : Uses(call[3][a], name, semantic)

\* C16: an identifier whose binding is reassigned, or which binds an array or
\* object literal that is changed by a mutating method, a member assignment
\* or a member delete, never resolves to a constant, and a source with a
\* response call that uses such an identifier is dynamic.
C16_MutatedBindingIsDynamic ==
    \A name \in DOMAIN source.declarations :
        (Reassigned(name, source) \/ LiteralChanged(name, source)) =>
            /\ \A depth \in 0 .. MAX_EVAL_DEPTH :
                   resolve_identifier(name, source, depth) = None
            /\ (/\ analysis # Pending
                /\ \E call \in ResponseCalls(source) : CallUses(call, name, source))
                   => analysis[2] = None

\* analysed: a source whose response reads items after "items[\"key\"] = ..."
C16_Witness ==
    /\ analysis = Returned(None)
    /\ LiteralChanged("items", source)
    /\ ~Reassigned("items", source)
    /\ \E n \in 1 .. Len(source.nodes) :
           /\ source.nodes[n][1] = "AssignmentExpression"
           /\ source.nodes[n][2][1] = "ComputedMemberExpression"
    /\ \E call \in ResponseCalls(source) :
           /\ CallUses(call, "items", source)
           /\ \A other \in DOMAIN source.declarations \ {"items"} :
                  ~CallUses(call, other, source)


\* ------------------------------------------------------------ claim C17
\* name is bound by a declarator with an initializer and is never reassigned
\* or mutated
Stable(name, semantic) ==
    /\ name \in DOMAIN semantic.declarations
    /\ semantic.declarations[name][1] = "VariableDeclarator"
    /\ semantic.declarations[name][2] # None
    /\ ~Reassigned(name, semantic)
    /\ ~LiteralChanged(name, semantic)

RECURSIVE Inline(_, _)
\* expr with the initializer written in place of every stable identifier
Inline(expr, semantic) ==
    CASE expr[1] = "Identifier" ->
           IF Stable(expr[2], semantic)
           THEN Inline(semantic.declarations[expr[2]][2][1], semantic)
           ELSE expr
      [] expr[1] = "ObjectExpression" ->
           Obj([i \in 1 .. Len(expr[2]) |->
                  IF expr[2][i][1] = "ObjectProperty"
                  THEN <<"ObjectProperty", expr[2][i][2], Inline(expr[2][i][3], semantic)>>
                  ELSE expr[2][i]])
      [] expr[1] = "ArrayExpression" ->
           Arr([i \in 1 .. Len(expr[2]) |-> Inline(expr[2][i], semantic)])
      [] expr[1] = "BinaryExpression" ->
           <<"BinaryExpression", expr[2], Inline(expr[3], semantic),
             Inline(expr[4], semantic)>>
      [] expr[1] = "TemplateLiteral" ->
           <<"TemplateLiteral", expr[2],
             [i \in 1 .. Len(expr[3]) |-> Inline(expr[3][i], semantic)]>>
      [] OTHER -> expr

\* the source with the arguments of its response calls inlined
InlineSource(src) ==
    [src EXCEPT !.nodes =
        [n \in 1 .. Len(src.nodes) |->
            IF src.nodes[n] \in ResponseCalls(src)
            THEN Call(src.nodes[n][2],
                      [a \in 1 .. Len(src.nodes[n][3]) |->
                          Inline(src.nodes[n][3][a], src)])
            ELSE src.nodes[n]]]

RECURSIVE Deepest(_, _, _)
\* the greatest depth eval_static is called with while expr is evaluated at
\* depth
Deepest(expr, semantic, depth) ==
    CASE expr[1] = "Identifier" ->
           IF Stable(expr[2], semantic)
           THEN Deepest(semantic.declarations[expr[2]][2][1], semantic, depth + 1)
           ELSE depth
      [] expr[1] = "ObjectExpression" ->
           LET below == { Deepest(expr[2][i][3], semantic, depth + 1) :
                            i \in { j \in 1 .. Len(expr[2]) :
                                      expr[2][j][1] = "ObjectProperty" } }
           IN  CHOOSE d \in below \cup {depth} : \A e \in below \cup {depth} : e <= d
      [] expr[1] = "ArrayExpression" ->
           LET below == { Deepest(expr[2][i], semantic, depth + 1) :
                            i \in 1 .. Len(expr[2]) }
           IN  CHOOSE d \in below \cup {depth} : \A e \in below \cup {depth} : e <= d
      [] expr[1] = "BinaryExpression" ->
           Max(Deepest(expr[3], semantic, depth + 1),
               Deepest(expr[4], semantic, depth + 1))
      [] expr[1] = "TemplateLiteral" ->
           LET below == { Deepest(expr[3][i], semantic, depth + 1) :
                            i \in 1 .. Len(expr[3]) }
           IN  CHOOSE d \in below \cup {depth} : \A e \in below \cup {depth} : e <= d
      [] OTHER -> depth

\* every evaluation of an argument of a response call of the source stays
\* within the depth cap
WithinDepth(src) ==
    \A call \in ResponseCalls(src) :
        \A a \in 1 .. Len(call[3]) : Deepest(call[3][a], src, 0) <= MAX_EVAL_DEPTH

\* C17 as stated: the analysis of a source equals the analysis of the same
\* source with the initializer written in place of every identifier that is
\* bound by a declarator and never reassigned or mutated.
C17_ConstantPropagation ==
    analysis # Pending => analysis[2] = analyze_action_source(InlineSource(source))

\* C17: constant propagation holds for the sources whose evaluation stays
\* within the recursion depth cap (MAX_EVAL_DEPTH); a source whose evaluation
\* goes deeper is dynamic.
C17_ConstantPropagationWithinDepth ==
    analysis # Pending =>
        IF WithinDepth(source)
        THEN analysis[2] = analyze_action_source(InlineSource(source))
        ELSE analysis[2] = None

\* analysed: the payload is the 15th variable of the chain, whose literal is
\* evaluated at the cap, and the analysis returns the literal's response
C17_Witness ==
    /\ analysis # Pending
    /\ analysis[2] # None
    /\ analysis[2][1].body = "\"Hello\""
    /\ source.nodes = <<ResponseCall("json", <<Id(ChainName(15))>>)>>
    /\ Deepest(Id(ChainName(15)), source, 0) = MAX_EVAL_DEPTH


\* ------------------------------------------------------------ claim C18
\* the plain returns of the source: "return <object-or-string-literal>;",
\* which leaves out the returns of the bundler's wrapper
PlainReturnsOf(src) ==
    { src.nodes[n][2] : n \in { k \in 1 .. Len(src.nodes) :
                                  /\ src.nodes[k][1] = "ReturnStatement"
                                  /\ src.nodes[k][2][1]
                                       \in {"ObjectExpression", "StringLiteral"} } }

\* C18: a source without any t.response.* call whose plain returns are all
\* constant and equal gets a StaticResponse from the analyzer.
C18_PlainReturnFallback ==
    (/\ analysis # Pending
     /\ ~source.panicked
     /\ ResponseCalls(source) = {}
     /\ PlainReturnsOf(source) # {}
     /\ \A ret \in PlainReturnsOf(source) : eval_static(ret, source, 0) # None
     /\ \A r1, r2 \in PlainReturnsOf(source) :
            eval_static(r1, source, 0) = eval_static(r2, source, 0))
        => analysis[2] # None


\* ------------------------------------------------------------ claim C19
\* the status the options object names, 200 when it names none
StatusOf(options) ==
    IF /\ options[1] = "Object"
       /\ "status" \in DOMAIN options[2]
       /\ options[2]["status"][1] = "Number"
    THEN options[2]["status"][2]
    ELSE 200

\* the string-valued entries of the options' headers, without the
\* content-type and server keys
HeadersOf(options) ==
    IF /\ options[1] = "Object"
       /\ "headers" \in DOMAIN options[2]
       /\ options[2]["headers"][1] = "Object"
    THEN SelectSeq(string_headers(options[2]["headers"][2], 1),
                   LAMBDA h : to_lowercase(h[1]) \notin {"content-type", "server"})
    ELSE <<>>

\* the value of the options argument of a call, an empty object when the
\* call has none
OptionsOf(call, semantic) ==
    IF Len(call[3]) >= 2 /\ call[3][2][1] # "SpreadElement"
    THEN eval_static(call[3][2], semantic, 0)
    ELSE Some(<<"Object", EmptyMap>>)

\* C19: the StaticResponse built from a call has the status of the options
\* object when it names one and 200 otherwise, and as extra headers the
\* string-valued entries of the options' headers without the content-type
\* and server keys.
C19_StatusAndHeadersFromOptions ==
    (analysis # Pending /\ analysis[2] # None) =>
        \A call \in ResponseCalls(source) :
            (CallResponses(call, source).responses # <<>>) =>
                LET resp == analysis[2][1]
                    options == OptionsOf(call, source)[1]
                IN  /\ resp.status = StatusOf(options)
                    /\ resp.extra_headers = HeadersOf(options)


\* ======================================================================
\* The dynamic route matcher (templates/server/src/main.rs and
\* templates/rust-ts/server/src/action_management.rs, the same function).
\* A str is modelled as the sequence of its characters.
\* ======================================================================

\* longest list of dynamic routes
MaxRoutes == 2

\* str::trim_start_matches(c)
RECURSIVE trim_start_matches(_, _)
trim_start_matches(s, c) ==
    IF s # <<>> /\ s[1] = c THEN trim_start_matches(Tail(s), c) ELSE s

\* str::trim_end_matches(c)
RECURSIVE trim_end_matches(_, _)
trim_end_matches(s, c) ==
    IF s # <<>> /\ s[Len(s)] = c
    THEN trim_end_matches(SubSeq(s, 1, Len(s) - 1), c)
    ELSE s

\* str::trim_matches(c)
trim_matches(s, c) == trim_end_matches(trim_start_matches(s, c), c)

\* str::find(c): the position of the first c in s, 0 when there is none
find(s, c) ==
    IF \E i \in 1 .. Len(s) : s[i] = c
    THEN CHOOSE i \in 1 .. Len(s) : s[i] = c /\ \A j \in 1 .. (i - 1) : s[j] # c
    ELSE 0

\* str::split(c).collect(): an empty str gives one empty segment
RECURSIVE split(_, _)
split(s, c) ==
    IF find(s, c) = 0 THEN <<s>>
    ELSE <<SubSeq(s, 1, find(s, c) - 1)>>
             \o split(SubSeq(s, find(s, c) + 1, Len(s)), c)

\* str::split_once(c)
split_once(s, c) ==
    IF find(s, c) = 0 THEN None
    ELSE Some(<<SubSeq(s, 1, find(s, c) - 1), SubSeq(s, find(s, c) + 1, Len(s))>>)

\* str::starts_with(c)
starts_with(s, c) == s # <<>> /\ s[1] = c

\* val.parse::<i64>().is_ok(): an optional sign and at least one digit; the
\* paths of the model are too short to leave the range of i64
parse_i64_is_ok(val) ==
    LET digits == IF val # <<>> /\ val[1] \in {"+", "-"} THEN Tail(val) ELSE val
    IN  /\ digits # <<>>
        /\ \A i \in 1 .. Len(digits) :
               digits[i] \in {"0", "1", "2", "3", "4", "5", "6", "7", "8", "9"}

\* the placeholder types "number" and "string"
TyNumber == <<"n", "u", "m", "b", "e", "r">>
TyString == <<"s", "t", "r", "i", "n", "g">>

\* "let (name, ty) = inner.split_once('<')...unwrap_or((inner, "string"))"
name_ty(inner) ==
    IF split_once(inner, "<") = None THEN <<inner, TyString>>
    ELSE <<split_once(inner, "<")[1][1],
           trim_end_matches(split_once(inner, "<")[1][2], ">")>>

\* match_segments that does not compare the literal segments
RECURSIVE match_segments_placeholders_only(_, _, _, _)
match_segments_placeholders_only(pattern_segments, path_segments, i, params) ==
    IF i > Len(pattern_segments) THEN Some(params)
    ELSE LET pat == pattern_segments[i]
             val == path_segments[i]
             ty == name_ty(Tail(pat))[2]
             valid == CASE ty = TyNumber -> parse_i64_is_ok(val)
                        [] ty = TyString -> TRUE
                        [] OTHER -> FALSE
         IN  IF starts_with(pat, ":")
             THEN IF ~valid THEN None
                  ELSE match_segments_placeholders_only(
                           pattern_segments, path_segments, i + 1,
                           Put(params, name_ty(Tail(pat))[1], val))
             ELSE match_segments_placeholders_only(
                      pattern_segments, path_segments, i + 1, params)

\* match_segments that does not look at the type of a placeholder
RECURSIVE match_segments_untyped(_, _, _, _)
match_segments_untyped(pattern_segments, path_segments, i, params) ==
    IF i > Len(pattern_segments) THEN Some(params)
    ELSE LET pat == pattern_segments[i]
             val == path_segments[i]
         IN  IF starts_with(pat, ":")
             THEN match_segments_untyped(pattern_segments, path_segments, i + 1,
                                         Put(params, name_ty(Tail(pat))[1], val))
             ELSE IF pat # val THEN None
             ELSE match_segments_untyped(pattern_segments, path_segments, i + 1,
                                         params)

\* match_dynamic_route, "for (pat, val) in pattern_segments.iter().zip(..)":
\* the pairs from the i-th on, with the params inserted so far; None when
\* the loop ends with matched = false
RECURSIVE match_segments(_, _, _, _)
match_segments(pattern_segments, path_segments, i, params) ==
    IF i > Len(pattern_segments) THEN Some(params)
    ELSE LET pat == pattern_segments[i]
             val == path_segments[i]
             ty == name_ty(Tail(pat))[2]
             valid == CASE ty = TyNumber -> parse_i64_is_ok(val)
                        [] ty = TyString -> TRUE
                        [] OTHER -> FALSE
         IN  IF starts_with(pat, ":")
             THEN IF ~valid THEN None
                  ELSE match_segments(pattern_segments, path_segments, i + 1,
                                      Put(params, name_ty(Tail(pat))[1], val))
             ELSE IF pat # val THEN None
             ELSE match_segments(pattern_segments, path_segments, i + 1, params)

\* match_dynamic_route, "for route in routes": the routes from the r-th on
RECURSIVE match_routes(_, _, _, _)
match_routes(method, path_segments, routes, r) ==
    IF r > Len(routes) THEN None
    ELSE LET route == routes[r]
             pattern_segments == split(trim_matches(route.pattern, "/"), "/")
             params == match_segments(pattern_segments, path_segments, 1, EmptyMap)
         IN  IF route.method # method
             THEN match_routes(method, path_segments, routes, r + 1)
             ELSE IF Len(pattern_segments) # Len(path_segments)
             THEN match_routes(method, path_segments, routes, r + 1)
             ELSE IF params # None THEN Some(<<route.action, params[1]>>)
             ELSE match_routes(method, path_segments, routes, r + 1)

\* match_dynamic_route
match_dynamic_route(method, path, routes) ==
    match_routes(method, split(trim_matches(path, "/"), "/"), routes, 1)

\* ----------------------------------------------------------------- inputs
HttpMethods == {"GET", "POST"}

\* /u/:id  /u/:id<number>  /u/:id<uuid>  /u/me  /:a/:a  /u
Patterns ==
    { <<"/", "u", "/", ":", "i", "d">>,
      <<"/", "u", "/", ":", "i", "d", "<", "n", "u", "m", "b", "e", "r", ">">>,
      <<"/", "u", "/", ":", "i", "d", "<", "u", "u", "i", "d", ">">>,
      <<"/", "u", "/", "m", "e">>,
      <<"/", ":", "a", "/", ":", "a">>,
      <<"/", "u">> }

\* /u/7  /u/-7  /u/me  /u/7/  /u  /  /u//7  /me/7  /u/7a
Paths ==
    { <<"/", "u", "/", "7">>,
      <<"/", "u", "/", "-", "7">>,
      <<"/", "u", "/", "m", "e">>,
      <<"/", "u", "/", "7", "/">>,
      <<"/", "u">>,
      <<"/">>,
      <<"/", "u", "/", "/", "7">>,
      <<"/", "m", "e", "/", "7">>,
      <<"/", "u", "/", "7", "a">> }

\* the route lists of at most MaxRoutes routes; the i-th route names the
\* action "action<i>"
RouteLists ==
    UNION { { [i \in 1 .. k |-> [ method |-> mp[i][1],
                                  pattern |-> mp[i][2],
                                  action |-> "action" \o ToString(i) ]] :
                mp \in [1 .. k -> HttpMethods \X Patterns] } :
            k \in 0 .. MaxRoutes }

\* the server with its routes loaded and a request whose path is in no exact
\* route
InitRoute ==
    /\ rt = [w \in Workers |-> NewRuntime(w)]
    /\ queue = [w \in Workers |-> <<>>]
    /\ round_robin_counter = 0
    /\ sends = {}
    /\ async_ops = EmptyBag
    /\ responses = [h \in Handles |-> <<>>]
    /\ attempts = [h \in Handles |-> <<>>]
    /\ dynamic_routes \in RouteLists
    /\ request \in [method : HttpMethods, path : Paths]
    /\ matched = Pending
    /\ JsOff /\ FastPathOff /\ RestOff

\* "match_dynamic_route(&method, &path, state.dynamic_routes.as_slice())"
MatchDynamicRoute ==
    /\ matched = Pending
    /\ matched' = Returned(match_dynamic_route(request.method, request.path,
                                               dynamic_routes))
    /\ UNCHANGED <<rtVars, jsVars, fpVars, dynamic_routes, request, restVars>>

NextRoute == MatchDynamicRoute

SpecRoute == InitRoute /\ [][NextRoute]_vars


\* ------------------------------------------------------------ claim C20
\* the '/'-separated segments of a path or pattern
Segments(s) == split(trim_matches(s, "/"), "/")

\* the pattern matches the path: as many segments, and every segment that is
\* not a placeholder literally equal
PatternMatches(pattern, path) ==
    /\ Len(Segments(pattern)) = Len(Segments(path))
    /\ \A i \in 1 .. Len(Segments(pattern)) :
           ~starts_with(Segments(pattern)[i], ":")
               => Segments(pattern)[i] = Segments(path)[i]

\* the path segments fit the types of the pattern's placeholders: any
\* segment for ":name" and ":name<string>", an integer for ":name<number>",
\* none for another type
TypesFit(pattern, path) ==
    \A i \in 1 .. Len(Segments(pattern)) :
        starts_with(Segments(pattern)[i], ":") =>
            LET ty == name_ty(Tail(Segments(pattern)[i]))[2]
            IN  \/ ty = TyString
                \/ ty = TyNumber /\ parse_i64_is_ok(Segments(path)[i])

\* the placeholders of the pattern
Placeholders(pattern) ==
    { i \in 1 .. Len(Segments(pattern)) : starts_with(Segments(pattern)[i], ":") }

\* every placeholder name bound to the corresponding path segment, the last
\* one where a name occurs twice
Bindings(pattern, path) ==
    [ name \in { name_ty(Tail(Segments(pattern)[i]))[1] : i \in Placeholders(pattern) } |->
        Segments(path)[CHOOSE i \in Placeholders(pattern) :
                          /\ name_ty(Tail(Segments(pattern)[i]))[1] = name
                          /\ \A j \in Placeholders(pattern) :
                                 name_ty(Tail(Segments(pattern)[j]))[1] = name => j <= i] ]

\* the routes whose method is the request's and whose pattern matches the
\* path, and those among them whose placeholder types fit as well
MatchingRoutes ==
    { r \in 1 .. Len(dynamic_routes) :
        /\ dynamic_routes[r].method = request.method
        /\ PatternMatches(dynamic_routes[r].pattern, request.path) }

TypedMatchingRoutes ==
    { r \in MatchingRoutes : TypesFit(dynamic_routes[r].pattern, request.path) }

\* the result for the first route of a set of routes, None for no route
FirstOf(routes) ==
    IF routes = {} THEN None
    ELSE LET r == CHOOSE r \in routes : \A q \in routes : r <= q
         IN  Some(<<dynamic_routes[r].action,
                    Bindings(dynamic_routes[r].pattern, request.path)>>)

\* C20 as stated: match_dynamic_route returns the action of the first route
\* in list order whose method is the request's and whose pattern has as many
\* segments as the path with every non-placeholder segment literally equal,
\* every placeholder bound to its path segment, and None when there is none.
C20_FirstMatchingRoute ==
    matched \notin {<<>>, Pending} => matched[2] = FirstOf(MatchingRoutes)

\* C20: the same, where a pattern matches only if, in addition, every
\* ":name<number>" placeholder meets a path segment that parses as an integer
\* and no placeholder has a type other than number or string.
C20_FirstTypedMatchingRoute ==
    matched \notin {<<>>, Pending} => matched[2] = FirstOf(TypedMatchingRoutes)

\* matched: the first route is passed over because "me" is no number, and
\* the second route's action is returned with id bound to "me"
C20_Witness ==
    /\ matched \notin {<<>>, Pending}
    /\ Len(dynamic_routes) = 2
    /\ MatchingRoutes = {1, 2}
    /\ TypedMatchingRoutes = {2}
    /\ matched[2] = Some(<<"action2", [name \in {<<"i", "d">>} |-> <<"m", "e">>]>>)

\* ------------------------------------------------------------ claim C22
\* match_dynamic_route returned a route
RouteMatched == matched \notin {<<>>, Pending} /\ matched[2] # None

\* the route it returned: the i-th route of the list names "action<i>"
MatchedRoute ==
    CHOOSE r \in 1 .. Len(dynamic_routes) :
        dynamic_routes[r].action = matched[2][1][1]

\* the name and the type suffix of the i-th segment of a pattern, a placeholder
PlaceholderName(pattern, i) == name_ty(Tail(Segments(pattern)[i]))[1]
HasNumberSuffix(pattern, i) == name_ty(Tail(Segments(pattern)[i]))[2] = TyNumber
HasNoSuffix(pattern, i) == find(Segments(pattern)[i], "<") = 0

\* the last placeholder of the pattern that has the name of the i-th
LastNamedLike(pattern, i) ==
    CHOOSE j \in Placeholders(pattern) :
        /\ PlaceholderName(pattern, j) = PlaceholderName(pattern, i)
        /\ \A k \in Placeholders(pattern) :
               PlaceholderName(pattern, k) = PlaceholderName(pattern, i) => k <= j

MaxManifestRoutes == 1

\* the serde_json values a route's "value" holds in the model: "getuser", 42
JsonValues == { <<"String", "getuser">>, <<"Number", 42>> }

\* Value::as_str
as_str(v) == IF v[1] = "String" THEN Some(v[2]) ELSE None

\* RouteVal { type, value }; "type" is action | json | reply
RouteVals == [type : {"action", "json", "reply"}, value : JsonValues]

\* the method names of the requests
RequestMethods == {"GET", "get", "POST"}

\* str::to_uppercase on the method names
to_uppercase(s) == IF s = "get" THEN "GET" ELSE s

\* the characters of a method name
chars(s) ==
    CASE s = "GET" -> <<"G", "E", "T">>
      [] s = "POST" -> <<"P", "O", "S", "T">>
      [] s = "get" -> <<"g", "e", "t">>

\* format!("{}:{}", method, path)
format_key(method, path) == chars(method) \o <<":">> \o path

\* the paths of the requests: /u/7  /u/me  /u
RequestPaths ==
    { <<"/", "u", "/", "7">>, <<"/", "u", "/", "m", "e">>, <<"/", "u">> }

\* the keys of the "routes" object of a manifest: GET:/u/7 and /u/7
ManifestKeys ==
    { format_key("GET", <<"/", "u", "/", "7">>), <<"/", "u", "/", "7">> }

\* the "routes" objects that deserialize into HashMap<String, RouteVal>
RouteTables == UNION { [keys -> RouteVals] : keys \in SUBSET ManifestKeys }

\* the "__dynamic_routes" arrays that deserialize into Vec<DynamicRoute>
ManifestRouteLists == { l \in RouteLists : Len(l) <= MaxManifestRoutes }

\* The file ./routes.json: missing, not JSON, or a JSON object whose "routes"
\* and "__dynamic_routes" are each absent, of the wrong shape, or well-formed.
RoutesFiles ==
    { <<"missing">>, <<"malformed">> }
    \cup { <<"object", r, d>> :
             r \in { <<"absent">>, <<"ill_typed">> }
                     \cup { <<"table", t>> : t \in RouteTables },
             d \in { <<"absent">>, <<"ill_typed">> }
                     \cup { <<"list", l>> : l \in ManifestRouteLists } }

\* The titan.json of the extension package under the project root: there is
\* no package, the file cannot be read, it is not a TitanConfig, or it is one.
TitanFiles == { <<"none">>, <<"unreadable">>, <<"malformed">>, <<"config">> }

\* "fs::read_to_string("./routes.json").unwrap_or_else(|_| "{}")" and
\* "serde_json::from_str(&raw).unwrap_or_default()": the fields "routes" and
\* "__dynamic_routes" of the Value main works with. Indexing a Value that has
\* no such field gives Null.
manifest_routes(file) ==
    IF file[1] = "object" /\ file[2][1] # "absent" THEN file[2] ELSE <<"Null">>

manifest_dynamic(file) ==
    IF file[1] = "object" /\ file[3][1] # "absent" THEN file[3] ELSE <<"Null">>

\* "serde_json::from_value(routes_json).unwrap_or_default()"
routes_from_value(v) == IF v[1] = "table" THEN v[2] ELSE EmptyMap

\* "serde_json::from_value(json["__dynamic_routes"].clone()).unwrap_or_default()"
dynamic_routes_from_value(v) == IF v[1] = "list" THEN v[2] ELSE <<>>

\* one line of the process's output
Line(stream, text) == [stream |-> stream, text |-> text]

\* load_project_extensions: what it registers and what it prints for the
\* titan.json it finds
load_project_extensions(file) ==
    CASE file = <<"none">> -> [loaded |-> {}, printed |-> <<>>]
      [] file = <<"unreadable">> ->
             [loaded |-> {}, printed |-> <<Line("stdout", "Failed to read")>>]
      [] file = <<"malformed">> ->
             [loaded |-> {}, printed |-> <<Line("stdout", "Failed to parse")>>]
      [] file = <<"config">> ->
             [loaded |-> {"ext"}, printed |-> <<Line("stdout", "Extension loaded:")>>]

\* the worker pool before the first request
PoolIdle ==
    /\ rt = [w \in Workers |-> NewRuntime(w)]
    /\ queue = [w \in Workers |-> <<>>]
    /\ round_robin_counter = 0
    /\ sends = {}
    /\ async_ops = EmptyBag
    /\ responses = [h \in Handles |-> <<>>]
    /\ attempts = [h \in Handles |-> <<>>]

\* the process is started in a directory holding some routes.json and some
\* titan.json, with the port free or taken
InitServer ==
    /\ PoolIdle /\ JsOff /\ FastPathOff
    /\ ReadOff /\ InvokeOff /\ NoneDropped /\ LateOff
    /\ routes_json \in RoutesFiles
    /\ titan_json \in TitanFiles
    /\ port_free \in BOOLEAN
    /\ server_pc = "start"
    /\ state_routes = EmptyMap
    /\ dynamic_routes = <<>>
    /\ extensions = {}
    /\ output = <<>>
    /\ request = <<>>
    /\ matched = <<>>
    /\ resolved = Pending

\* main, to "axum::serve(listener, app)": the only step that can fail is
\* "TcpListener::bind(..).await?", which ends the process with the error
\* written to stderr.
main ==
    /\ server_pc = "start"
    /\ state_routes' = routes_from_value(manifest_routes(routes_json))
    /\ dynamic_routes' = dynamic_routes_from_value(manifest_dynamic(routes_json))
    /\ extensions' = load_project_extensions(titan_json).loaded
    /\ output' = load_project_extensions(titan_json).printed
                   \o (IF port_free
                       THEN <<Line("stdout", "Titan server running")>>
                       ELSE <<Line("stderr", "Error: bind")>>)
    /\ server_pc' = IF port_free THEN "serving" ELSE "exited"
    /\ UNCHANGED <<rtVars, jsVars, fpVars, request, matched>>
    /\ UNCHANGED <<routes_json, titan_json, port_free, resolved>>
    /\ UNCHANGED <<readVars, invokeVars, dropped, lateVars>>

\* "state.routes.get(&strict_key).or_else(|| state.routes.get(&path))" of the
\* ts template
routes_get_ts(table, strict_key, path) ==
    IF strict_key \in DOMAIN table THEN Some(table[strict_key])
    ELSE IF path \in DOMAIN table THEN Some(table[path])
    ELSE None

\* "state.routes.get(&key)" of the server template
routes_get_server(table, key) ==
    IF key \in DOMAIN table THEN Some(table[key]) ELSE None

\* dynamic_handler_inner, "ROUTE RESOLUTION": what the handler does with the
\* entry the exact table gave for the request (route), the dynamic list being
\* consulted when the exact entry named no action and made no reply
resolve_route(route, method, path, list) ==
    LET exact == route # None
        action_name ==
            IF exact /\ route[1].type = "action"
            THEN IF as_str(route[1].value) # None
                 THEN Some(as_str(route[1].value)[1]) ELSE Some("unknown")
            ELSE None
        dyn == match_dynamic_route(method, path, list)
    IN  IF exact /\ route[1].type = "json"
        THEN <<"json", route[1].value>>
        ELSE IF exact /\ route[1].type # "action"
                /\ as_str(route[1].value) # None
        THEN <<"reply", as_str(route[1].value)[1]>>
        ELSE IF action_name # None
        THEN <<"action", "exact", action_name[1], EmptyMap>>
        ELSE IF dyn # None
        THEN <<"action", "dynamic", dyn[1][1], dyn[1][2]>>
        ELSE <<"404 Not Found">>

\* dynamic_handler_inner of the ts template on a request
dynamic_route_ts(m, p) ==
    /\ server_pc = "serving"
    /\ request' = [method |-> m, path |-> p, template |-> "ts"]
    /\ resolved' =
          resolve_route(routes_get_ts(state_routes,
                                      format_key(to_uppercase(m), p), p),
                        to_uppercase(m), p, dynamic_routes)
    /\ UNCHANGED <<rtVars, jsVars, fpVars, dynamic_routes, matched>>
    /\ UNCHANGED <<routes_json, titan_json, port_free, server_pc, state_routes,
                   extensions, output>>
    /\ UNCHANGED <<readVars, invokeVars, dropped, lateVars>>

\* dynamic_handler_inner of the server template on a request
dynamic_route_server(m, p) ==
    /\ server_pc = "serving"
    /\ request' = [method |-> m, path |-> p, template |-> "server"]
    /\ resolved' =
          resolve_route(routes_get_server(state_routes,
                                          format_key(to_uppercase(m), p)),
                        to_uppercase(m), p, dynamic_routes)
    /\ UNCHANGED <<rtVars, jsVars, fpVars, dynamic_routes, matched>>
    /\ UNCHANGED <<routes_json, titan_json, port_free, server_pc, state_routes,
                   extensions, output>>
    /\ UNCHANGED <<readVars, invokeVars, dropped, lateVars>>

NextServer ==
    \/ main
    \/ \E m \in RequestMethods, p \in RequestPaths : dynamic_route_ts(m, p)
    \/ \E m \in RequestMethods, p \in RequestPaths : dynamic_route_server(m, p)

SpecServer == InitServer /\ [][NextServer]_vars

\* ------------------------------------------------------------- claims, server
\* the request has been through dynamic_handler_inner
Handled == server_pc = "serving" /\ resolved # Pending

\* the key of the request in the exact table
RequestKey == format_key(to_uppercase(request.method), request.path)

\* the answer was made from an entry of the exact table
FromExactEntry ==
    \/ resolved[1] \in {"json", "reply"}
    \/ resolved[1] = "action" /\ resolved[2] = "exact"

\* C21: a request resolves to one route, and when the exact table holds the
\* request's METHOD:PATH key the request is answered from that entry (its
\* JSON, its text or its action) and not from the dynamic route list.
C21_ExactOverridesDynamic ==
    (Handled /\ RequestKey \in DOMAIN state_routes) => FromExactEntry

\* a manifest that is there and is not of the documented shape
MalformedRoutes ==
    \/ routes_json[1] = "malformed"
    \/ routes_json[1] = "object"
         /\ (routes_json[2][1] = "ill_typed" \/ routes_json[3][1] = "ill_typed")

MalformedExtension == titan_json = <<"malformed">>

\* C27: with a malformed route manifest or extension manifest the process
\* never serves: once main has run it has exited with a report on stderr.
C27_MalformedManifestIsFatal ==
    (MalformedRoutes \/ MalformedExtension) =>
        /\ server_pc # "serving"
        /\ server_pc = "exited" =>
               \E i \in 1 .. Len(output) : output[i].stream = "stderr"

\* ------------------------------------------------- claims, errors of a request
\* dynamic_handler_inner, "Prepare response", for the results the workers of
\* the model send: a result with an "error" field is served with
\* StatusCode::INTERNAL_SERVER_ERROR, the others (none is a t.response value)
\* as Json with 200
response_status(result_json) ==
    IF "error" \in DOMAIN result_json
    THEN "500 Internal Server Error" ELSE "200 OK"

\* "match rx.await { Ok(res) => .. }": the HTTP response of the request with
\* reply handle h is made from the first result sent on the handle
HttpStatus(h) == response_status(responses[h][1].json)

\* the request with reply handle h named an action no worker has loaded
ActionNotFound(h) ==
    \E i \in 1 .. Len(attempts[h]) : attempts[h][i].outcome = "absent"

\* C26: a request whose route names an action that is not loaded in the
\* worker is answered, and its HTTP response has status 404.
C26_ActionNotFoundIs404 ==
    \A h \in Handles :
        ActionNotFound(h) =>
            responses[h] # <<>> /\ HttpStatus(h) = "404 Not Found"

\* ------------------------------------------------------------ claim C24
\* in this step worker w ran the action of the request with reply handle h
\* and the action ended with an exception that is not the sentinel
ActionThrew(w, h) ==
    /\ Len(attempts'[h]) = Len(attempts[h]) + 1
    /\ attempts'[h][Len(attempts'[h])].w = w
    /\ attempts'[h][Len(attempts'[h])].outcome = "throw"

\* the pending, active and drift state runtime r holds for request q
RequestState(r, q) ==
    LET Entry(map) == IF q \in DOMAIN map THEN <<map[q]>> ELSE <<>>
        drifts == { x \in DOMAIN r.drift_to_request : r.drift_to_request[x] = q }
    IN  [ pending |-> Entry(r.pending_requests),
          active |-> Entry(r.active_requests),
          start |-> Entry(r.request_start_counters),
          timings |-> Entry(r.request_timings),
          drifts |-> drifts,
          completed |-> [x \in drifts \cap DOMAIN r.completed_drifts |->
                             r.completed_drifts[x]] ]

\* the requests runtime r holds state for
RequestsOf(r) ==
    DOMAIN r.pending_requests \cup DOMAIN r.active_requests
        \cup DOMAIN r.request_start_counters \cup DOMAIN r.request_timings
        \cup { r.drift_to_request[x] : x \in DOMAIN r.drift_to_request }

\* C24: when an action ends with an exception that is not the sentinel, an
\* error result is sent on the reply handle of that request and its pending
\* entry is removed, the worker goes on with the commands queued behind, and
\* what the worker holds for every other request is as before.
C24_ThrowEndsOnlyThatRequest ==
    [][ \A w \in Workers, h \in Handles :
          ActionThrew(w, h) =>
            LET e == attempts'[h][Len(attempts'[h])]
            IN  /\ Len(responses'[h]) = Len(responses[h]) + 1
                /\ "error" \in DOMAIN responses'[h][Len(responses'[h])].json
                /\ e.req \notin DOMAIN rt'[w].pending_requests
                /\ queue'[w] = Tail(queue[w])
                /\ \A g \in Handles \ {h} : responses'[g] = responses[g]
                /\ \A q \in RequestsOf(rt[w]) \ {e.req} :
                       RequestState(rt'[w], q) = RequestState(rt[w], q) ]_vars

\* ------------------------------------------------------------ claim C25
\* the worker pool serving requests for actions whose exceptions mention
\* SUSPEND in their text
NextSuspendText ==
    \/ \E a \in SuspendTextActionNames : ExecuteCall(a)
    \/ \E s \in sends : ExecuteSend(s)
    \/ \E w \in Workers : WorkerRequest(w)
    \/ \E w \in Workers : WorkerResume(w)
    \/ \E o \in BagToSet(async_ops), err \in BOOLEAN : AsyncComplete(o, err)

SpecSuspendText == Init /\ [][NextSuspendText]_vars

\* The execution ended with an exception of the action itself: it did not
\* return, and no drift() call missed (a miss hands an operation to the
\* executor and throws the sentinel).
OwnException(e) == e.outcome \notin {"return", "absent"} /\ e.ops = <<>>

\* C25: an exception the action itself throws, whatever its text, is handled
\* as an action error - an error result is delivered on the request's reply
\* handle and the pending entry is removed - and is never taken for a
\* suspension.
C25_OnlySentinelSuspends ==
    \A h \in Handles : \A a \in 1 .. Len(attempts[h]) :
        LET e == attempts[h][a]
        IN  OwnException(e) =>
              /\ e.outcome = "throw"
              /\ responses[h] # <<>>
              /\ "error" \in DOMAIN responses[h][Len(responses[h])].json
              /\ e.req \notin DOMAIN rt[e.w].pending_requests

\* ------------------------------------------------------------ claim C30
\* in this step worker w took the command at the head of its channel
TookCommand(w) == queue[w] # <<>> /\ queue'[w] = Tail(queue[w])

\* the request a Resume for drift_id is for on runtime r, 0 for none
RequestOfDrift(r, drift_id) ==
    IF drift_id \in DOMAIN r.drift_to_request
    THEN r.drift_to_request[drift_id] ELSE 0

MaxDrops == 1

\* The HTTP side drops the receiver of reply handle h: the future of
\* RuntimeManager::execute is dropped while it waits in "rx.await", that is
\* after the request was sent to its worker and before a result arrived.
DropHandle(h) ==
    /\ h < round_robin_counter
    /\ \A s \in sends : s.task.response_tx # h
    /\ responses[h] = <<>>
    /\ h \notin dropped
    /\ Cardinality(dropped) < MaxDrops
    /\ dropped' = dropped \cup {h}
    /\ UNCHANGED <<rtVars, jsVars, fpVars, routeVars, srvVars, readVars,
                   invokeVars, lateVars>>

NextDrop ==
    \/ Next
    \/ \E h \in Handles : DropHandle(h)

SpecDrop == Init /\ [][NextDrop]_vars

\* C28: once every command is handled and every operation has returned, a
\* request whose reply handle was dropped has had its action run to its end
\* (returned, thrown, or found absent), nothing was received on the handle,
\* and the worker holds no pending_requests, active_requests or
\* request_start_counters entry for it.
C28_DroppedHandleIsCleanedUp ==
    Quiescent =>
        \A h \in dropped :
            /\ attempts[h] # <<>>
            /\ attempts[h][Len(attempts[h])].outcome \in {"return", "throw", "absent"}
            /\ responses[h] = <<>>
            /\ LET e == attempts[h][1]
               IN  /\ e.req \notin DOMAIN rt[e.w].pending_requests
                   /\ e.req \notin DOMAIN rt[e.w].active_requests
                   /\ e.req \notin DOMAIN rt[e.w].request_start_counters

\* --------------------------------------------------------------------- t.read
\* native_read (the binding behind t.read in the JS runtimes) and T::read (the
\* t.read of the Rust actions) on a small file system:
\*     /app            the project root, also the current directory
\*     /app/db/f       a file of the project
\*     /app/link       a symbolic link to /etc
\*     /etc/passwd     a file outside the project
\* A canonical path is the sequence of its components from "/".

\* the longest path argument, in components
MaxComponents == 3

Dirs == { <<>>, <<"app">>, <<"app", "db">>, <<"etc">> }
Files == { <<"app", "db", "f">>, <<"etc", "passwd">> }
IsLink(p) == p = <<"app", "link">>
LinkTarget(p) == <<"etc">>

\* the content of a file
Content(p) == IF p = <<"etc", "passwd">> THEN "secret" ELSE "sql"

\* the project root: __titan_root of the isolate, std::env::current_dir()
ProjectRoot == <<"app">>

\* the components a path argument is made of
Components == { "..", "db", "f", "link", "passwd", "etc", "app", "nofile" }

\* the path arguments: relative ("db/f", "../etc/passwd", "link/passwd") or
\* absolute ("/etc/passwd")
PathArgs ==
    [ absolute : BOOLEAN,
      components : UNION { [1 .. n -> Components] : n \in 0 .. MaxComponents } ]

\* Path::is_absolute
is_absolute(path) == path.absolute

\* Path::join: an absolute argument replaces the base
join(base, path) ==
    IF path.absolute THEN path.components ELSE base \o path.components

\* Path::canonicalize: walk the components from cur, following links and
\* going up at ".."; Err (None) when a component does not exist or is looked
\* up in something that is not a directory
RECURSIVE canonicalize_from(_, _)
canonicalize_from(cur, rest) ==
    IF rest = <<>> THEN Some(cur)
    ELSE IF cur \notin Dirs THEN None
    ELSE IF Head(rest) = ".."
    THEN canonicalize_from(IF cur = <<>> THEN <<>>
                           ELSE SubSeq(cur, 1, Len(cur) - 1), Tail(rest))
    ELSE IF IsLink(Append(cur, Head(rest)))
    THEN canonicalize_from(LinkTarget(Append(cur, Head(rest))), Tail(rest))
    ELSE IF Append(cur, Head(rest)) \in Dirs \cup Files
    THEN canonicalize_from(Append(cur, Head(rest)), Tail(rest))
    ELSE None

canonicalize(p) == canonicalize_from(<<>>, p)

\* Path::starts_with: component-wise prefix
path_starts_with(p, base) ==
    Len(base) <= Len(p) /\ SubSeq(p, 1, Len(base)) = base

\* fs::read_to_string
read_to_string(p) ==
    IF p \in Files THEN <<"Ok", Content(p)>> ELSE <<"Err", "read failed">>

\* native_read: a JS string is returned, or an exception is thrown
native_read(path) ==
    LET root_path == IF canonicalize(ProjectRoot) # None
                     THEN canonicalize(ProjectRoot)[1] ELSE ProjectRoot
        joined == join(root_path, path)
        target == canonicalize(joined)
    IN  IF is_absolute(path) THEN <<"Err", "expects a relative path">>
        ELSE IF target = None THEN <<"Err", "file not found">>
        ELSE IF ~path_starts_with(target[1], root_path)
        THEN <<"Err", "path escapes allowed root">>
        ELSE read_to_string(target[1])

\* T::read: anyhow::Result<String>
T_read(path) ==
    LET root == ProjectRoot
        target == canonicalize(join(root, path))
    IN  IF target = None THEN <<"Err", "canonicalize">>
        ELSE read_to_string(target[1])

\* an action is about to call t.read with some path
InitRead ==
    /\ PoolIdle /\ JsOff /\ FastPathOff /\ RouteOff
    /\ ServerOff /\ InvokeOff /\ NoneDropped /\ LateOff
    /\ read_call \in [impl : {"native_read", "T::read"}, path : PathArgs]
    /\ read_result = Pending

\* t.read(path) of a JS action
NativeRead ==
    /\ read_result = Pending
    /\ read_call.impl = "native_read"
    /\ read_result' = native_read(read_call.path)
    /\ UNCHANGED <<rtVars, jsVars, fpVars, routeVars, srvVars, read_call,
                   invokeVars, dropped, lateVars>>

\* t.read(path) of a Rust action
TRead ==
    /\ read_result = Pending
    /\ read_call.impl = "T::read"
    /\ read_result' = T_read(read_call.path)
    /\ UNCHANGED <<rtVars, jsVars, fpVars, routeVars, srvVars, read_call,
                   invokeVars, dropped, lateVars>>

NextRead == NativeRead \/ TRead

SpecRead == InitRead /\ [][NextRead]_vars

\* ------------------------------------------------------------ claim C23
\* the canonical target of the path argument, None when it has none
CanonicalTarget == canonicalize(join(ProjectRoot, read_call.path))

\* the call returned data
ReturnedData == read_result # Pending /\ read_result[1] = "Ok"

\* C23: t.read returns data only for a path whose canonical target is under
\* the canonicalized project root; for every other path it fails.
C23_ReadStaysUnderRoot ==
    ReturnedData =>
        /\ CanonicalTarget # None
        /\ path_starts_with(CanonicalTarget[1], canonicalize(ProjectRoot)[1])

\* -------------------------------------------------- the extension trampoline
\* native_invoke_extension: the call of a native extension function from JS,
\* in the js template (a dispatcher over the declared parameter and return
\* kinds) and in the rust-ts template (one supported signature).

\* the most parameters a declared native function has in the model
MaxParams == 3

ParamTypes == {"String", "F64", "Bool", "Json", "Buffer"}
ReturnTypes == {"String", "F64", "Bool", "Json", "Buffer", "Void"}

\* Signature { params, ret }
Signatures ==
    [ params : UNION { [1 .. n -> ParamTypes] : n \in 0 .. MaxParams },
      ret : ReturnTypes ]

\* The calls: the template, whether the registry has an entry at fn_idx,
\* whether the entry's symbol pointer is null, and the declared signature.
Invocations ==
    [ template : {"js", "rust-ts"},
      entry : BOOLEAN,
      ptr_null : BOOLEAN,
      sig : Signatures ]

\* dispatch_ret!: the native function is called through the pointer and its
\* result converted to a serde_json::Value according to the return kind
dispatch_ret(ret) ==
    CASE ret = "String" -> <<"String", "native">>
      [] ret = "F64" -> <<"Number", "native">>
      [] ret = "Bool" -> <<"Bool", TRUE>>
      [] ret = "Json" -> <<"Object", "native">>
      [] ret = "Buffer" -> <<"Array", "native">>
      [] ret = "Void" -> <<"Null">>

\* js_from_value: the JS value set as the return value
js_from_value(ret_type, val) ==
    CASE ret_type = "String" ->
             <<"string", IF val[1] = "String" THEN val[2] ELSE "">>
      [] ret_type = "F64" ->
             <<"number", IF val[1] = "Number" THEN val[2] ELSE "0.0">>
      [] ret_type = "Bool" ->
             <<"boolean", IF val[1] = "Bool" THEN val[2] ELSE FALSE>>
      [] ret_type = "Json" ->
             IF val[1] = "Null" THEN <<"null">> ELSE <<"parsed", val>>
      [] ret_type = "Buffer" ->
             IF val[1] = "Array" THEN <<"undefined">> ELSE <<"Uint8Array", "empty">>
      [] ret_type = "Void" -> <<"undefined">>

\* what a call leaves: a return value, an exception, or nothing set; called
\* is whether the native function ran. NotInvoked: the call is yet to be made.
Value(v, called) == [outcome |-> "value", value |-> v, called |-> called]
Exception(msg) ==
    [outcome |-> "exception", value |-> <<"Error", msg>>, called |-> FALSE]
NotInvoked == [outcome |-> "pending", value |-> <<>>, called |-> FALSE]
NothingSet == [outcome |-> "return", value |-> <<"undefined">>, called |-> FALSE]

\* native_invoke_extension of the js template
native_invoke_extension_js(inv) ==
    LET sig == inv.sig
        argc == Len(sig.params)
        dispatched ==
            CASE argc = 0 -> TRUE
              [] argc = 1 -> TRUE
              [] argc = 2 -> \/ sig.params = <<"String", "String">>
                             \/ sig.params = <<"String", "F64">>
              [] OTHER -> FALSE
        res_val == IF dispatched THEN dispatch_ret(sig.ret) ELSE <<"Null">>
    IN  IF ~inv.entry THEN NothingSet
        ELSE IF inv.ptr_null THEN Exception("Native function not found")
        ELSE Value(js_from_value(sig.ret, res_val), dispatched)

\* load_project_extensions of the rust-ts template: the Signature it stores
\* for the declared parameters and result
SignatureOf(sig) ==
    IF sig.params = <<"F64", "F64">> /\ sig.ret = "F64"
    THEN "F64TwoArgsRetF64" ELSE "Unknown"

\* native_invoke_extension of the rust-ts template
native_invoke_extension_rust_ts(inv) ==
    IF ~inv.entry \/ inv.ptr_null THEN Exception("Native function not found")
    ELSE IF SignatureOf(inv.sig) = "F64TwoArgsRetF64"
    THEN Value(<<"number", "native">>, TRUE)
    ELSE Exception("Unsupported signature")

\* an action is about to call a native extension function
InitInvoke ==
    /\ PoolIdle /\ JsOff /\ FastPathOff /\ RouteOff
    /\ ServerOff /\ ReadOff /\ NoneDropped /\ LateOff
    /\ invocation \in Invocations
    /\ invoke_result = NotInvoked

InvokeJs ==
    /\ invoke_result = NotInvoked
    /\ invocation.template = "js"
    /\ invoke_result' = native_invoke_extension_js(invocation)
    /\ UNCHANGED <<rtVars, jsVars, fpVars, routeVars, srvVars, readVars,
                   invocation, dropped, lateVars>>

InvokeRustTs ==
    /\ invoke_result = NotInvoked
    /\ invocation.template = "rust-ts"
    /\ invoke_result' = native_invoke_extension_rust_ts(invocation)
    /\ UNCHANGED <<rtVars, jsVars, fpVars, routeVars, srvVars, readVars,
                   invocation, dropped, lateVars>>

NextInvoke == InvokeJs \/ InvokeRustTs

SpecInvoke == InitInvoke /\ [][NextInvoke]_vars

\* ------------------------------------------------------------ claim C29
\* The call went through a registered function with a non-null pointer and
\* the trampoline did not call it: the combination is one it does not support.
UnsupportedCall ==
    /\ invoke_result.outcome # "pending"
    /\ invocation.entry /\ ~invocation.ptr_null
    /\ ~invoke_result.called

\* C29: a call whose argument-count, argument-kinds and return-kind
\* combination the trampoline does not support ends with a JS exception: it
\* does not return a value.
C29_UnsupportedSignatureThrows ==
    UnsupportedCall => invoke_result.outcome = "exception"

\* ===================================================================
\* The HTTP response dynamic_handler_inner builds from what execute()
\* returned (templates/ts/server/src/main.rs, from "Construct Server-Timing
\* header" to "Add Server-Timing Header").
\*
\* A serde_json object is a function from its keys to its values; a value is
\* <<"String", chars>>, <<"Number", n>> (a u64), <<"NegInt", n>> (an i64 below
\* 0), <<"Float", num, den>> (the f64 num/den), <<"Bool", b>>, <<"Null">> or
\* <<"Object", members>> with members a sequence of <<key, value>> in the
\* order the map iterates. A string is the sequence of its characters.
\* Value::as_bool
as_bool(v) == IF v[1] = "Bool" THEN Some(v[2]) ELSE None

\* Number::as_u64
as_u64(v) == IF v[1] = "Number" THEN Some(v[2]) ELSE None

\* "f as u16": the float is truncated towards zero and saturates at the ends
\* of the range of u16
f64_as_u16(num, den) ==
    LET whole == IF num < 0 THEN 0 - ((0 - num) \div den) ELSE num \div den
    IN  IF whole < 0 THEN 0 ELSE IF whole > 65535 THEN 65535 ELSE whole

\* Number::as_f64 followed by "f as u16"
number_as_f64_as_u16(v) ==
    CASE v[1] = "Number" -> f64_as_u16(v[2], 1)
      [] v[1] = "NegInt" -> f64_as_u16(v[2], 1)
      [] v[1] = "Float" -> f64_as_u16(v[2], v[3])

\* "u as u16": the low 16 bits
u64_as_u16(u) == u % 65536

\* "let status_u16 = match result_json.get("status") { Some(Value::Number(n)) => .. }"
status_u16_of(result_json) ==
    IF "status" \in DOMAIN result_json
       /\ result_json["status"][1] \in {"Number", "NegInt", "Float"}
    THEN IF as_u64(result_json["status"]) # None
         THEN u64_as_u16(as_u64(result_json["status"])[1])
         ELSE number_as_f64_as_u16(result_json["status"])
    ELSE 200

\* StatusCode::from_u16: the codes 100 .. 999 are status codes
StatusCode_from_u16(src) == IF src >= 100 /\ src < 1000 THEN Some(src) ELSE None

\* Option::unwrap_or
unwrap_or(option, default) == IF option = None THEN default ELSE option[1]

\* HeaderValue::from_str: every byte is visible ASCII, a tab or above 127;
\* the one control character of the inputs is the line feed
is_valid_header_value(chars_of_value) ==
    \A i \in 1 .. Len(chars_of_value) : chars_of_value[i] # "\n"

\* "for (k, v) in hmap { if let Some(vs) = v.as_str() { builder.header(k, vs) } }"
RECURSIVE header_pairs(_, _)
header_pairs(members, i) ==
    IF i > Len(members) THEN <<>>
    ELSE (IF as_str(members[i][2]) # None
          THEN <<[name |-> members[i][1], value |-> as_str(members[i][2])[1]]>>
          ELSE <<>>) \o header_pairs(members, i + 1)

\* "format!("{}_{};dur={:.2}", name, i, duration)" for each timing, joined by
\* ", ": the header value is the sequence of its entries, an entry being the
\* name of the timing and its index in the vector
server_timing_of(timings) ==
    [i \in 1 .. Len(timings) |-> [name |-> timings[i], index |-> i - 1]]

\* "obj.insert("_titanTimings", json!(timings))"
inject_timings(result_json, timings) ==
    [k \in (DOMAIN result_json) \cup {"_titanTimings"} |->
        IF k = "_titanTimings" THEN <<"Timings", timings>> ELSE result_json[k]]

\* Json(value).into_response() with a status
JsonResponse(status, value) ==
    [ outcome |-> "sent", status |-> status,
      headers |-> <<[name |-> "content-type", value |-> <<"application/json">>]>>,
      body |-> <<"json", value>> ]

\* no response has been built yet
NotBuilt ==
    [outcome |-> "pending", status |-> 0, headers |-> <<>>, body |-> <<"text", <<>>>>]

\* the handler task panicked in "builder.body(..).unwrap()": no response
Panicked ==
    [outcome |-> "panic", status |-> 0, headers |-> <<>>, body |-> <<"text", <<>>>>]

\* "match result_json.get("body") { Some(Value::String(s)) => s.clone(),
\*    Some(v) => v.to_string(), None => "" }" for the bodies of the inputs
body_text_of(result_json) ==
    IF "body" \notin DOMAIN result_json THEN <<>>
    ELSE LET v == result_json["body"]
         IN  CASE v[1] = "String" -> v[2]
               [] v[1] = "Null" -> <<"n", "u", "l", "l">>
               [] v[1] = "Bool" -> IF v[2] THEN <<"t", "r", "u", "e">>
                                   ELSE <<"f", "a", "l", "s", "e">>

\* a redirect whose status is left as the action gave it
final_status_u16_kept(status) == status

\* "if final_status_u16 < 300 || final_status_u16 > 399 { final_status_u16 = 302 }"
final_status_u16_of(status) == IF status < 300 \/ status > 399 THEN 302 ELSE status

\* the branch "if is_resp.as_bool().unwrap_or(false)": the response of a
\* structured result
structured_response(result_json) ==
    LET status == unwrap_or(StatusCode_from_u16(status_u16_of(result_json)), 200)
        user_headers ==
            IF "headers" \in DOMAIN result_json /\ result_json["headers"][1] = "Object"
            THEN header_pairs(result_json["headers"][2], 1) ELSE <<>>
        url == IF "redirect" \in DOMAIN result_json
               THEN as_str(result_json["redirect"]) ELSE None
        is_redirect == url # None
        final_status_u16 == final_status_u16_of(status)
        headers == IF is_redirect
                   THEN Append(user_headers, [name |-> "Location", value |-> url[1]])
                   ELSE user_headers
    IN  IF \E i \in 1 .. Len(headers) : ~is_valid_header_value(headers[i].value)
        THEN Panicked
        ELSE [ outcome |-> "sent",
               status |-> IF is_redirect
                          THEN unwrap_or(StatusCode_from_u16(final_status_u16), 302)
                          ELSE status,
               headers |-> headers,
               body |-> <<"text", IF is_redirect THEN <<>>
                                  ELSE body_text_of(result_json)>> ]

\* "response.headers_mut().insert("Server-Timing", ..)": insert replaces the
\* values the name had
insert_header(response, name, value) ==
    [response EXCEPT !.headers =
        Append(SelectSeq(@, LAMBDA h : h.name # name),
               [name |-> name, value |-> value])]

\* dynamic_handler_inner from the return of execute() to the response
prepare_response(result, timings) ==
    LET result_json == inject_timings(result, timings)
        response ==
            IF "error" \in DOMAIN result_json
            THEN JsonResponse(500, result_json)
            ELSE IF "_isResponse" \in DOMAIN result_json
                 THEN IF unwrap_or(as_bool(result_json["_isResponse"]), FALSE)
                      THEN structured_response(result_json)
                      ELSE JsonResponse(200, result_json)
                 ELSE JsonResponse(200, result_json)
    IN  IF response.outcome = "sent" /\ server_timing_of(timings) # <<>>
        THEN insert_header(response, "Server-Timing", server_timing_of(timings))
        ELSE response

\* ------------------------------------------------------------------ inputs
\* the values of "status": 200, 301, 399, 400, 99, 1000, 65536 + 300, -1,
\* 307.5 and the string "301"
StatusValues ==
    { <<"Number", n>> : n \in {200, 301, 399, 400, 99, 1000, 65836} }
    \cup { <<"NegInt", 0 - 1>>, <<"Float", 615, 2>>, <<"String", <<"3", "0", "1">>>> }

\* the values of "redirect": /a, a text with a line feed, 1, null
RedirectValues ==
    { <<"String", <<"/", "a">>>>, <<"String", <<"/", "\n">>>>, <<"Number", 1>>, <<"Null">> }

\* the values of "headers"
HeadersValues ==
    { <<"Object", <<>>>>,
      <<"Object", << <<"X-A", <<"String", <<"1">>>>>>, <<"X-N", <<"Number", 5>>>> >>>>,
      <<"Object", << <<"Location", <<"String", <<"/", "b">>>>>> >>>>,
      <<"Object", << <<"X-A", <<"String", <<"\n">>>>>> >>>> }

\* the values of "body"
BodyValues == { <<"String", <<"h", "i">>>>, <<"Bool", TRUE>>, <<"Null">> }

\* the values of "_isResponse"
IsResponseValues == { <<"Bool", TRUE>>, <<"Bool", FALSE>>, <<"String", <<"y">>>> }

\* a key the object does not have
Absent == <<"absent">>

\* the object with the members whose value is not Absent
object_of(members) ==
    LET present == {i \in 1 .. Len(members) : members[i][2] # Absent}
    IN  [k \in {members[i][1] : i \in present} |->
            members[CHOOSE i \in present : members[i][1] = k][2]]

\* the results an action can hand to the transport: the structured responses
\* { _isResponse, status?, headers?, body?, redirect? }, and the objects with
\* an "error" member or without "_isResponse"
ResultJsons ==
    { object_of(<< <<"_isResponse", x>>, <<"status", s>>, <<"headers", h>>,
                   <<"body", b>>, <<"redirect", r>>, <<"error", e>> >>) :
        x \in IsResponseValues \cup {Absent},
        s \in StatusValues \cup {Absent},
        h \in HeadersValues \cup {Absent},
        b \in BodyValues \cup {Absent},
        r \in RedirectValues \cup {Absent},
        e \in {<<"String", <<"b", "o", "o", "m">>>>, Absent} }

\* the timings a WorkerResult carries: none, one drift, a drift and a failed one
TimingVectors == { <<>>, <<"drift">>, <<"drift", "drift_error">> }

\* ----------------------------------------------------------------- actions
\* execute() has returned some (result_json, timings)
InitRespond ==
    /\ worker_result \in [json : ResultJsons, timings : TimingVectors]
    /\ http_response = NotBuilt
    /\ PoolIdle /\ JsOff /\ FastPathOff /\ RouteOff
    /\ ServerOff /\ ReadOff /\ InvokeOff /\ NoneDropped /\ LockOff /\ DispatchOff

\* dynamic_handler_inner, "Prepare response" and "Add Server-Timing Header"
PrepareResponse ==
    /\ http_response.outcome = "pending"
    /\ http_response' = prepare_response(worker_result.json, worker_result.timings)
    /\ UNCHANGED <<rtVars, jsVars, fpVars, routeVars, srvVars, readVars,
                   invokeVars, dropped, worker_result, lockVars, dispatchVars>>

NextRespond == PrepareResponse

SpecRespond == InitRespond /\ [][NextRespond]_vars

\* ------------------------------------------------------------ claim C31
\* the result execute() returned is a structured response with redirect set:
\* { _isResponse: true, redirect: <a string>, .. } without an "error" member
StructuredRedirect ==
    /\ "error" \notin DOMAIN worker_result.json
    /\ "_isResponse" \in DOMAIN worker_result.json
    /\ worker_result.json["_isResponse"] = <<"Bool", TRUE>>
    /\ "redirect" \in DOMAIN worker_result.json
    /\ worker_result.json["redirect"][1] = "String"

\* the redirect URL of a structured redirect
RedirectUrl == worker_result.json["redirect"][2]

\* the texts of the response that become header values: the URL and the
\* string members of "headers"
HeaderTexts ==
    {RedirectUrl} \cup
    (IF "headers" \in DOMAIN worker_result.json
     THEN {worker_result.json["headers"][2][i][2][2] :
             i \in {j \in 1 .. Len(worker_result.json["headers"][2]) :
                      worker_result.json["headers"][2][j][2][1] = "String"}}
     ELSE {})

\* no header text of the response holds a control character, so that HTTP
\* can carry the response at all
Sendable == \A text \in HeaderTexts : "\n" \notin {text[i] : i \in 1 .. Len(text)}

\* the status the action gave is the integer n
GivenStatus(n) ==
    /\ "status" \in DOMAIN worker_result.json
    /\ worker_result.json["status"] = <<"Number", n>>

HttpResponse(h) == prepare_response(responses[h][1].json, responses[h][1].timings)

\* the execution of the action that ended the request with reply handle h
LastAttempt(h) == attempts[h][Len(attempts[h])]

\* the results of the Resumes processed for the request with reply handle h, in
\* the order they completed: the memoized values its last execution was given
ResumedResults(h) == LastAttempt(h).got

\* the Server-Timing headers of a response
ServerTimingHeaders(response) ==
    SelectSeq(response.headers, LAMBDA x : x.name = "Server-Timing")

\* C32: the response of a request during which drifts occurred carries a
\* Server-Timing header with one entry per Resume processed for it, in
\* completion order, named drift or drift_error after the shape of the result;
\* the response of a request without drifts carries no Server-Timing header.
C32_ServerTimingPerResume ==
    \A h \in Handles :
        (responses[h] # <<>> /\ attempts[h] # <<>>) =>
            LET st == ServerTimingHeaders(HttpResponse(h))
            IN  IF ResumedResults(h) # <<>>
                THEN /\ Len(st) = 1
                     /\ Len(st[1].value) = Len(ResumedResults(h))
                     /\ \A i \in 1 .. Len(st[1].value) :
                           st[1].value[i].name = TimingType(ResumedResults(h)[i])
                ELSE st = <<>>

\* ===================================================================
\* The worker threads of templates/js/server/src/runtime.rs taken statement
\* by statement: a thread takes a command, takes a free isolate id, locks
\* the Mutex of the isolate, runs the handler under the guard, sends the id
\* back and drops the guard. The isolates, the two command channels and the
\* free channel are those of the scheduler above.
\* ------------------------------------------------------------------ bounds
\* number of worker threads an injected failure stops
MaxFaults == 1

\* the local variable `cmd` of a thread that holds no command
NoCommand == [type |-> "none"]
\* the local variable `iso_id` of a thread that holds no isolate id
NoIsolate == 0 - 1

\* Mutex::new(rt): nobody holds it and it is not poisoned
NewMutex == [holder |-> 0 - 1, poisoned |-> FALSE]

\* a Mutex that lets every caller in
mutex_is_free_always(m) == TRUE

\* Mutex::lock returns when no other thread holds the guard
mutex_is_free(m) == m.holder = 0 - 1

\* a free channel that loses the id it is sent
free_tx_send_lost(free, iso_id) == free

\* "free_tx.send(iso_id).unwrap()"
free_tx_send(free, iso_id) == Append(free, iso_id)

\* where a thread is while it holds the guard of an isolate
UnderGuard == {"new_run", "new_free", "new_unlock", "resume_run", "resume_unlock"}

\* RuntimeManager::new of the js server: the isolates and their Mutexes are
\* made, every id is sent to the free channel, the threads start their loop
InitIsolates ==
    /\ rt = [i \in Isolates |-> NewRuntime(i)]
    /\ queue = [req |-> <<>>, res |-> <<>>]
    /\ round_robin_counter = 0
    /\ sends = {}
    /\ async_ops = EmptyBag
    /\ responses = [h \in Handles |-> <<>>]
    /\ attempts = [h \in Handles |-> <<>>]
    /\ free_isolates = [k \in 1 .. num_isolates(JsThreads) |-> k - 1]
    /\ thread_pc = [t \in Threads |-> "try_recv"]
    /\ entered = [i \in Isolates |-> {}]
    /\ isolate_lock = [i \in Isolates |-> NewMutex]
    /\ thread_local = [t \in Threads |-> [cmd |-> NoCommand, iso_id |-> NoIsolate]]
    /\ faults = {}
    /\ FastPathOff /\ RouteOff
    /\ ServerOff /\ ReadOff /\ InvokeOff /\ NoneDropped /\ RespondOff /\ DispatchOff

\* what a step of a thread loop leaves alone besides the scheduler
LoopFrame == UNCHANGED <<fpVars, routeVars, srvVars, readVars, invokeVars,
                         dropped, respondVars, dispatchVars,
                         round_robin_counter, sends>>

\* "if let Ok(cmd) = res_rx_c.try_recv() { handle_resume(cmd, ..) .. }"
LoopTryRecv(t) ==
    /\ thread_pc[t] = "try_recv"
    /\ queue.res # <<>>
    /\ queue' = [queue EXCEPT !.res = Tail(@)]
    /\ thread_local' = [thread_local EXCEPT ![t].cmd = Head(queue.res)]
    /\ thread_pc' = [thread_pc EXCEPT ![t] = "resume_lock"]
    /\ UNCHANGED <<rt, async_ops, responses, attempts, free_isolates, entered,
                   isolate_lock, faults>>
    /\ LoopFrame

\* try_recv finds the resume channel empty: the thread goes on to the select
LoopTryRecvEmpty(t) ==
    /\ thread_pc[t] = "try_recv"
    /\ queue.res = <<>>
    /\ thread_pc' = [thread_pc EXCEPT ![t] = "select"]
    /\ UNCHANGED <<rt, queue, async_ops, responses, attempts, free_isolates,
                   entered, lockVars>>
    /\ LoopFrame

\* select arm "recv(res_rx_c) -> cmd"
LoopSelectResume(t) ==
    /\ thread_pc[t] = "select"
    /\ queue.res # <<>>
    /\ queue' = [queue EXCEPT !.res = Tail(@)]
    /\ thread_local' = [thread_local EXCEPT ![t].cmd = Head(queue.res)]
    /\ thread_pc' = [thread_pc EXCEPT ![t] = "resume_lock"]
    /\ UNCHANGED <<rt, async_ops, responses, attempts, free_isolates, entered,
                   isolate_lock, faults>>
    /\ LoopFrame

\* select arm "recv(req_rx_c) -> cmd": select takes any of the arms that are
\* ready
LoopSelectRequest(t) ==
    /\ thread_pc[t] = "select"
    /\ queue.req # <<>>
    /\ queue' = [queue EXCEPT !.req = Tail(@)]
    /\ thread_local' = [thread_local EXCEPT ![t].cmd = Head(queue.req)]
    /\ thread_pc' = [thread_pc EXCEPT ![t] = "recv_free"]
    /\ UNCHANGED <<rt, async_ops, responses, attempts, free_isolates, entered,
                   isolate_lock, faults>>
    /\ LoopFrame

\* "if let Ok(iso_id) = free_isolates_rx_c.recv()"
LoopRecvFree(t) ==
    /\ thread_pc[t] = "recv_free"
    /\ free_isolates # <<>>
    /\ free_isolates' = Tail(free_isolates)
    /\ thread_local' = [thread_local EXCEPT ![t].iso_id = Head(free_isolates)]
    /\ thread_pc' = [thread_pc EXCEPT ![t] = "new_lock"]
    /\ UNCHANGED <<rt, queue, async_ops, responses, attempts, entered,
                   isolate_lock, faults>>
    /\ LoopFrame

\* the isolate a thread at a lock() is about to lock
LockTarget(t) ==
    IF thread_pc[t] = "resume_lock" THEN thread_local[t].cmd.isolate_id
    ELSE thread_local[t].iso_id

\* "let mut rt = isolates[iso_id].lock().unwrap()" of both handlers: the call
\* returns when the Mutex is free; unwrap panics if the Mutex is poisoned,
\* which ends the thread and drops the guard
LockIsolate(t) ==
    /\ thread_pc[t] \in {"new_lock", "resume_lock"}
    /\ mutex_is_free(isolate_lock[LockTarget(t)])
    /\ IF isolate_lock[LockTarget(t)].poisoned
       THEN /\ thread_pc' = [thread_pc EXCEPT ![t] = "dead"]
            /\ UNCHANGED <<isolate_lock, thread_local>>
       ELSE /\ isolate_lock' = [isolate_lock EXCEPT ![LockTarget(t)].holder = t]
            /\ thread_local' = [thread_local EXCEPT ![t].iso_id = LockTarget(t)]
            /\ thread_pc' = [thread_pc EXCEPT ![t] =
                                IF @ = "new_lock" THEN "new_run" ELSE "resume_run"]
    /\ UNCHANGED <<rt, queue, async_ops, responses, attempts, free_isolates,
                   entered, faults>>
    /\ LoopFrame

\* js handle_new_request under the guard, from "rt.request_counter += 1" to
\* the cleanup after execute_action_optimized
RunNewRequest(t) ==
    /\ thread_pc[t] = "new_run"
    /\ JsHandled(t, thread_local[t].iso_id,
                 handle_new_request(thread_local[t].cmd.task,
                                    rt[thread_local[t].iso_id]))
    /\ thread_pc' = [thread_pc EXCEPT ![t] = "new_free"]
    /\ UNCHANGED <<queue, free_isolates, lockVars>>
    /\ LoopFrame

\* "ALWAYS free the isolate for other work": free_tx.send(iso_id)
SendFree(t) ==
    /\ thread_pc[t] = "new_free"
    /\ free_isolates' = free_tx_send(free_isolates, thread_local[t].iso_id)
    /\ thread_pc' = [thread_pc EXCEPT ![t] = "new_unlock"]
    /\ UNCHANGED <<rt, queue, async_ops, responses, attempts, entered, lockVars>>
    /\ LoopFrame

\* js handle_resume under the guard, from "let req_id = .." to the cleanup
RunResume(t) ==
    /\ thread_pc[t] = "resume_run"
    /\ JsHandled(t, thread_local[t].iso_id,
                 handle_resume(thread_local[t].cmd.drift_id,
                               thread_local[t].cmd.result,
                               rt[thread_local[t].iso_id]))
    /\ thread_pc' = [thread_pc EXCEPT ![t] = "resume_unlock"]
    /\ UNCHANGED <<queue, free_isolates, lockVars>>
    /\ LoopFrame

\* the handler returns: the guard `rt` goes out of scope and the thread is
\* back at the top of its loop
DropGuard(t) ==
    /\ thread_pc[t] \in {"new_unlock", "resume_unlock"}
    /\ isolate_lock' = [isolate_lock EXCEPT ![thread_local[t].iso_id].holder = 0 - 1]
    /\ thread_local' = [thread_local EXCEPT ![t] =
                           [cmd |-> NoCommand, iso_id |-> NoIsolate]]
    /\ thread_pc' = [thread_pc EXCEPT ![t] = "try_recv"]
    /\ UNCHANGED <<rt, queue, async_ops, responses, attempts, free_isolates,
                   entered, faults>>
    /\ LoopFrame

\* the steps of worker thread t
ThreadStep(t) ==
    \/ LoopTryRecv(t)
    \/ LoopTryRecvEmpty(t)
    \/ LoopSelectResume(t)
    \/ LoopSelectRequest(t)
    \/ LoopRecvFree(t)
    \/ LockIsolate(t)
    \/ RunNewRequest(t)
    \/ SendFree(t)
    \/ RunResume(t)
    \/ DropGuard(t)

\* the actions the requests of this scheduler name: one that returns at once,
\* one that returns after a drift and one that throws after a drift
IsolateActionNames == {<<0, "return">>, <<1, "return">>, <<1, "throw">>}

NextIsolates ==
    \/ \E a \in IsolateActionNames : JsExecute(a)
    \/ \E t \in Threads : LoopTryRecv(t)
    \/ \E t \in Threads : LoopTryRecvEmpty(t)
    \/ \E t \in Threads : LoopSelectResume(t)
    \/ \E t \in Threads : LoopSelectRequest(t)
    \/ \E t \in Threads : LoopRecvFree(t)
    \/ \E t \in Threads : LockIsolate(t)
    \/ \E t \in Threads : RunNewRequest(t)
    \/ \E t \in Threads : SendFree(t)
    \/ \E t \in Threads : RunResume(t)
    \/ \E t \in Threads : DropGuard(t)
    \/ \E o \in BagToSet(async_ops), err \in BOOLEAN : JsAsyncComplete(o, err)

SpecIsolates == InitIsolates /\ [][NextIsolates]_vars

\* ------------------------------------------------------------ claim C38
\* thread t is executing a handler on the runtime of isolate i
Inside(t, i) == thread_pc[t] \in UnderGuard /\ thread_local[t].iso_id = i

\* C38: in the shared-isolate scheduler no two worker threads are ever inside
\* the same isolate: a thread handling a new Request and a thread handling a
\* Resume on one isolate never overlap, in any interleaving.
C38_OneThreadInsideAnIsolate ==
    \A i \in Isolates : Cardinality({t \in Threads : Inside(t, i)}) <= 1

\* a thread is handling a new Request inside an isolate while another thread
\* holds a Resume for that isolate and waits at its lock
C38_Witness ==
    \E t1 \in Threads, t2 \in Threads :
        /\ thread_pc[t1] \in {"new_run", "new_free", "new_unlock"}
        /\ thread_pc[t2] = "resume_lock"
        /\ LockTarget(t2) = thread_local[t1].iso_id

\* ------------------------------------------------------------ claim C39
\* the threads that have taken isolate id i from the free channel for a new
\* request and have not sent it back
HoldersOf(i) ==
    {t \in Threads : thread_pc[t] \in {"new_lock", "new_run", "new_free"}
                     /\ thread_local[t].iso_id = i}

\* how often isolate id i is in the free channel
TimesFree(i) == Cardinality({k \in 1 .. Len(free_isolates) : free_isolates[k] = i})

\* every isolate id is in the free channel once or held by one thread
IdsConserved ==
    \A i \in Isolates : TimesFree(i) + Cardinality(HoldersOf(i)) = 1

\* a recv() on the free channel returns when the channel holds an id
SpecIsolatesFair ==
    InitIsolates /\ [][NextIsolates]_vars
    /\ \A t \in Threads : WF_vars(LoopRecvFree(t))

\* C39: isolate ids are conserved - every id is at any time either in the
\* free channel exactly once or held by exactly one thread that is handling a
\* new request - and a thread that has taken a Request and waits for a free
\* isolate eventually obtains one.
C39_IsolateIdsConserved ==
    /\ []IdsConserved
    /\ \A t \in Threads :
          (thread_pc[t] = "recv_free") ~> (thread_pc[t] = "new_lock")

\* both threads hold an isolate id for a new request at once
C39_Witness ==
    /\ \E i \in Isolates : HoldersOf(i) # {}
    /\ Cardinality(UNION {HoldersOf(i) : i \in Isolates}) = JsThreads
    /\ Len(free_isolates) = num_isolates(JsThreads) - JsThreads

\* ------------------------------------------------------------ claim C35
\* in this step thread t takes a Request from the request channel
TakesRequest(t) == thread_pc[t] = "select" /\ thread_pc'[t] = "recv_free"

\* C35: Resume commands have the highest priority: a worker thread never
\* takes a new Request from the request channel while a Resume command is
\* waiting in the resume channel.
C35_ResumeBeforeRequest ==
    [][\A t \in Threads : TakesRequest(t) => queue.res = <<>>]_vars

\* ------------------------------------------------------------ claim C33
\* A worker thread fails: it panics on the way into the action (for example
\* in v8_str(..).unwrap() of execute_action_optimized) while it holds the
\* guard of an isolate. The thread ends, and dropping the guard while
\* panicking poisons the Mutex.
ThreadPanic(t) ==
    /\ Cardinality(faults) < MaxFaults
    /\ thread_pc[t] \in {"new_run", "resume_run"}
    /\ faults' = faults \cup {t}
    /\ thread_pc' = [thread_pc EXCEPT ![t] = "dead"]
    /\ isolate_lock' = [isolate_lock EXCEPT ![thread_local[t].iso_id] =
                           [holder |-> 0 - 1, poisoned |-> TRUE]]
    /\ UNCHANGED <<rt, queue, async_ops, responses, attempts, free_isolates,
                   entered, thread_local>>
    /\ LoopFrame

NextIsolatesFault == NextIsolates \/ \E t \in Threads : ThreadPanic(t)

SpecIsolatesFault == InitIsolates /\ [][NextIsolatesFault]_vars

\* the runtimes no thread can enter any more
LostRuntimes == {i \in Isolates : isolate_lock[i].poisoned}

\* C33: workers share no mutable request state: the failure of one worker
\* takes with it only request state that this worker alone has used - no
\* runtime in which another worker has run a request is lost - and no other
\* worker stops.
C33_FailureStaysWithItsWorker ==
    /\ \A i \in LostRuntimes : entered[i] \subseteq faults
    /\ \A t \in Threads : thread_pc[t] = "dead" => t \in faults

\* ------------------------------------------------- RuntimeManager::execute
\* The dispatch of templates/ts/server/src/runtime.rs taken statement by
\* statement, with several callers inside execute() at once and a pool
\* whose size is not a power of two.
PoolSize == 3
NumCallers == 3
Callers == 0 .. NumCallers - 1
MaxDispatches == 7
PoolWorkers == 0 .. PoolSize - 1

\* AtomicUsize::fetch_add(1, Relaxed): one indivisible read-modify-write; the
\* caller gets the value before the addition
fetch_add_stale(counter) == [old |-> counter, new |-> counter]
fetch_add(counter) == [old |-> counter, new |-> counter + 1]

\* "% self.request_txs.len()"
request_txs_index(value) == value % PoolSize

NotCalling == [pc |-> "idle", value |-> 0, idx |-> 0]

InitDispatch ==
    /\ round_robin_counter = 0
    /\ queue = [w \in PoolWorkers |-> <<>>]
    /\ execute_calls = [c \in Callers |-> NotCalling]
    /\ dispatch_log = <<>>
    /\ rt = <<>> /\ sends = {} /\ async_ops = <<>>
    /\ responses = <<>> /\ attempts = <<>>
    /\ JsOff /\ FastPathOff /\ RouteOff
    /\ ServerOff /\ ReadOff /\ InvokeOff /\ NoneDropped /\ RespondOff /\ LockOff

DispatchFrame ==
    UNCHANGED <<rt, sends, async_ops, responses, attempts, jsVars, fpVars,
                routeVars, srvVars, readVars, invokeVars, dropped,
                respondVars, lockVars>>

\* "let idx = self.round_robin_counter.fetch_add(1, Ordering::Relaxed)
\*            % self.request_txs.len();"
ExecuteFetchAdd(c) ==
    /\ execute_calls[c].pc = "idle"
    /\ round_robin_counter < MaxDispatches
    /\ LET drawn == fetch_add(round_robin_counter)
           idx == request_txs_index(drawn.old) IN
       /\ round_robin_counter' = drawn.new
       /\ execute_calls' = [execute_calls EXCEPT ![c] =
                               [pc |-> "send", value |-> drawn.old, idx |-> idx]]
       /\ dispatch_log' = Append(dispatch_log, [caller |-> c, value |-> drawn.old,
                                                idx |-> idx])
    /\ UNCHANGED queue
    /\ DispatchFrame

\* "self.request_txs[idx].send(WorkerCommand::Request(task))" into the
\* bounded channel of the chosen worker
ExecuteSendTask(c) ==
    /\ execute_calls[c].pc = "send"
    /\ Len(queue[execute_calls[c].idx]) < QueueCap
    /\ queue' = [queue EXCEPT ![execute_calls[c].idx] =
                    Append(@, [type |-> "Request", response_tx |-> c])]
    /\ execute_calls' = [execute_calls EXCEPT ![c].pc = "await"]
    /\ UNCHANGED <<round_robin_counter, dispatch_log>>
    /\ DispatchFrame

\* the worker takes the Request off its channel and answers it; "rx.await"
\* of the caller returns
ExecuteAnswered(w) ==
    /\ queue[w] # <<>>
    /\ queue' = [queue EXCEPT ![w] = Tail(@)]
    /\ execute_calls' = [execute_calls EXCEPT ![Head(queue[w]).response_tx] = NotCalling]
    /\ UNCHANGED <<round_robin_counter, dispatch_log>>
    /\ DispatchFrame

NextDispatch ==
    \/ \E c \in Callers : ExecuteFetchAdd(c)
    \/ \E c \in Callers : ExecuteSendTask(c)
    \/ \E w \in PoolWorkers : ExecuteAnswered(w)

SpecDispatch == InitDispatch /\ [][NextDispatch]_vars

\* ------------------------------------------------------------ claim C34
\* the workers chosen by the dispatches number i .. i + PoolSize - 1
ChosenFrom(i) == {dispatch_log[k].idx : k \in i .. i + PoolSize - 1}
\* the callers that are inside execute() with a counter value in hand
InExecute == {c \in Callers : execute_calls[c].pc # "idle"}

\* C34: the worker of a dispatch is the value an atomic fetch-and-add drew
\* from the shared counter, modulo N: the calls that are inside execute() at
\* the same time hold distinct counter values, no value is drawn twice, and
\* any N consecutive dispatches select each of the N workers exactly once.
C34_RoundRobinDispatch ==
    /\ \A c, d \in InExecute :
          c # d => execute_calls[c].value # execute_calls[d].value
    /\ \A i, j \in DOMAIN dispatch_log :
          i # j => dispatch_log[i].value # dispatch_log[j].value
    /\ \A i \in DOMAIN dispatch_log :
          dispatch_log[i].idx = dispatch_log[i].value % PoolSize
    /\ \A i \in DOMAIN dispatch_log :
          i + PoolSize - 1 <= Len(dispatch_log) => ChosenFrom(i) = PoolWorkers

\* three callers are inside execute() at once, and more than N dispatches
\* have been made
C34_Witness ==
    /\ InExecute = Callers
    /\ Len(dispatch_log) > PoolSize + 1

\* ------------------------------------------------------------ claim C36
\* the executions of actions logged so far
LoggedExecutions ==
    UNION {{attempts[h][k] : k \in DOMAIN attempts[h]} : h \in Handles}

\* an execution numbers its drifts from its request's snapshot on: the
\* drift_counter it started from was request_start_counters[R]
ReplayFromSnapshot ==
    \A e \in LoggedExecutions :
        \A k \in DOMAIN e.ids : e.ids[k] = e.start + k

\* a step keeps every snapshot that is there before and after it, and a
\* snapshot that appears is the drift_counter of the worker before the step
SnapshotKept ==
    \A w \in Workers :
        \A R \in DOMAIN rt'[w].request_start_counters :
            rt'[w].request_start_counters[R] =
                IF R \in DOMAIN rt[w].request_start_counters
                THEN rt[w].request_start_counters[R]
                ELSE rt[w].drift_counter

\* C36: on a Resume for a drift of request R the worker sets drift_counter to
\* request_start_counters[R] before it re-executes R, and the snapshot, taken
\* immediately before R's first execution, is not modified by any Request or
\* Resume until R's entry is removed.
C36_ReplayFromKeptSnapshot == []ReplayFromSnapshot /\ [][SnapshotKept]_vars

\* a request whose snapshot is not 0 has been re-executed after a Resume and
\* has made a drift again, while its snapshot is still stored
C36_Witness ==
    \E h \in Handles : \E k \in DOMAIN attempts[h] :
        /\ k > 1
        /\ attempts[h][k].start > 0
        /\ attempts[h][k].ids # <<>>
        /\ attempts[h][k].outcome = "suspend"
        /\ attempts[h][k].req \in DOMAIN rt[attempts[h][k].w].request_start_counters

\* ------------------------------------------------------------ claim C37
\* the request ids a worker holds in each of its three per-request tables
PendingIds(w) == DOMAIN rt[w].pending_requests
ActiveIds(w) == DOMAIN rt[w].active_requests
SnapshotIds(w) == DOMAIN rt[w].request_start_counters

\* C37: after every handled command (Request or Resume) the
\* pending_requests, the active_requests and the request_start_counters of a
\* worker have exactly the same request ids as keys.
C37_SameKeysInRequestTables ==
    \A w \in Workers :
        /\ PendingIds(w) = ActiveIds(w)
        /\ ActiveIds(w) = SnapshotIds(w)

\* a worker has finished one request, whose entries are gone, and holds the
\* entries of another one that is suspended
C37_Witness ==
    \E w \in Workers :
        /\ PendingIds(w) # {}
        /\ \E R \in 1 .. rt[w].request_counter : R \notin PendingIds(w)
        /\ \E h \in Handles : \E k \in DOMAIN attempts[h] :
              attempts[h][k].w = w /\ attempts[h][k].outcome \in {"return", "throw"}

\* ------------------------------------------------------------ claim C40
\* the request the Resume at the head of the channel of worker w is for
ResumedRequest(w) ==
    IF Head(queue[w]).drift_id \in DOMAIN rt[w].drift_to_request
    THEN rt[w].drift_to_request[Head(queue[w]).drift_id] ELSE 0

\* the next command of worker w is a Resume whose drift id maps to no request
\* that is active on w
StaleResumeNext(w) ==
    /\ queue[w] # <<>>
    /\ Head(queue[w]).type = "Resume"
    /\ ResumedRequest(w) \notin DOMAIN rt[w].active_requests

\* the step in which worker w takes the command at the head of its channel
TakesCommand(w) == queue[w] # <<>> /\ queue'[w] = Tail(queue[w])

\* C40: a Resume whose drift id maps to no currently active request executes
\* no action, delivers no response, and leaves pending_requests,
\* active_requests, request_start_counters and drift_counter unchanged.
C40_StaleResumeChangesNothing ==
    [][\A w \in Workers :
          StaleResumeNext(w) /\ TakesCommand(w) =>
             /\ attempts' = attempts
             /\ responses' = responses
             /\ async_ops' = async_ops
             /\ rt'[w].pending_requests = rt[w].pending_requests
             /\ rt'[w].active_requests = rt[w].active_requests
             /\ rt'[w].request_start_counters = rt[w].request_start_counters
             /\ rt'[w].drift_counter = rt[w].drift_counter]_vars

\* a worker holds the result of a drift of a request that had returned
\* before the Resume came: finishing the request removed its results, so
\* this one was stored by a Resume handled after that
C40_Witness ==
    \E w \in Workers : \E d \in DOMAIN rt[w].completed_drifts :
        /\ d \in DOMAIN rt[w].drift_to_request
        /\ rt[w].drift_to_request[d] \notin DOMAIN rt[w].active_requests
        /\ rt[w].drift_counter > 0
        /\ \E h \in Handles : \E k \in DOMAIN attempts[h] :
              /\ attempts[h][k].w = w
              /\ attempts[h][k].req = rt[w].drift_to_request[d]
              /\ attempts[h][k].outcome = "return"

====
